---- MODULE Spec2Model ----
(***************************************************************************)
(* Model of the curve-interpolator kernel: the spline segment evaluator,   *)
(* the control point selector, the curve mapper contract with its two      *)
(* strategies (linear/segmented table and numerical quadrature), and the   *)
(* caching facade CurveInterpolator.                                        *)
(*                                                                         *)
(* Numbers.  A JavaScript number is modelled as an extended rational       *)
(* <<n, d>> in lowest terms with d > 0, or one of the three IEEE specials  *)
(* NaN = <<0,0>>, +Infinity = <<1,0>>, -Infinity = <<-1,0>>.  Arithmetic is *)
(* exact (floating point rounding and the sign of zero are abstracted);    *)
(* division by zero, Infinity and NaN propagate as in IEEE 754.            *)
(***************************************************************************)
EXTENDS Integers, Sequences, FiniteSets, TLC

(***************************************************************************)
(* Bounds of the model                                                     *)
(***************************************************************************)
\* longest list of control points handed to the mapper
MaxPoints == 2
\* longest list of control points handed to getControlPoints
MaxCurve == 4
\* sub divisions of the linear mapper (constructor argument, default 300)
SubDivisions == 2
\* inverse samples per segment of the numerical mapper (default 21)
NSamples == 2

\* the outcome of a call: a returned value, or a thrown error
Ok(v) == [v |-> v, ok |-> TRUE]
Thrown == [v |-> <<>>, ok |-> FALSE]

\* With(v, LAMBDA x : e) is e with x standing for the value v
With(v, F(_)) == F(v)

(***************************************************************************)
(* Extended rational arithmetic                                            *)
(***************************************************************************)
RECURSIVE GCD(_, _)
GCD(a, b) == IF b = 0 THEN a ELSE GCD(b, a % b)

Abs(x) == IF x < 0 THEN -x ELSE x
Sgn(x) == IF x < 0 THEN -1 ELSE IF x > 0 THEN 1 ELSE 0

NaN == <<0, 0>>
PosInf == <<1, 0>>
NegInf == <<-1, 0>>

\* the rational n/d (d # 0) in lowest terms
Q(n, d) ==
  With(GCD(Abs(n), Abs(d)), LAMBDA g :
    IF d < 0 THEN <<-(n \div g), -(d \div g)>> ELSE <<n \div g, d \div g>>)

I(n) == <<n, 1>>
Zero == I(0)
One == I(1)
Half == Q(1, 2)

IsNaN(x) == x = NaN
IsInf(x) == x[2] = 0 /\ x[1] # 0
\* Number.isFinite
IsFinite(x) == x[2] # 0

RNeg(x) == <<-x[1], x[2]>>

RAdd(x, y) ==
  IF x[2] = 1 /\ y[2] = 1 THEN <<x[1] + y[1], 1>>
  ELSE IF x[2] # 0 /\ y[2] # 0
  THEN With(GCD(x[2], y[2]), LAMBDA g :
         Q(x[1] * (y[2] \div g) + y[1] * (x[2] \div g), x[2] * (y[2] \div g)))
  ELSE IF IsNaN(x) \/ IsNaN(y) THEN NaN
  ELSE IF IsInf(x) /\ IsInf(y) THEN (IF x = y THEN x ELSE NaN)
  ELSE IF IsInf(x) THEN x
  ELSE y

RSub(x, y) == RAdd(x, RNeg(y))

RMul(x, y) ==
  IF x[2] = 1 /\ y[2] = 1 THEN <<x[1] * y[1], 1>>
  ELSE IF x[2] # 0 /\ y[2] # 0
  THEN With(GCD(Abs(x[1]), y[2]), LAMBDA g1 :
       With(GCD(Abs(y[1]), x[2]), LAMBDA g2 :
         <<(x[1] \div g1) * (y[1] \div g2), (x[2] \div g2) * (y[2] \div g1)>>))
  ELSE IF IsNaN(x) \/ IsNaN(y) THEN NaN
  ELSE IF x[1] = 0 \/ y[1] = 0 THEN NaN
  ELSE <<Sgn(x[1]) * Sgn(y[1]), 0>>

RDiv(x, y) ==
  IF IsNaN(x) \/ IsNaN(y) THEN NaN
  ELSE IF IsInf(x) THEN (IF IsInf(y) THEN NaN
                         ELSE <<Sgn(x[1]) * (IF y[1] < 0 THEN -1 ELSE 1), 0>>)
  ELSE IF IsInf(y) THEN Zero
  ELSE IF y[1] = 0 THEN (IF x[1] = 0 THEN NaN ELSE <<Sgn(x[1]), 0>>)
  ELSE RMul(x, Q(y[2], y[1]))

\* comparisons; every comparison with NaN is false
RLt(x, y) ==
  IF x[2] # 0 /\ y[2] # 0
  THEN (IF x[2] = y[2] THEN x[1] < y[1] ELSE RAdd(x, RNeg(y))[1] < 0)
  ELSE IF IsNaN(x) \/ IsNaN(y) \/ x = y THEN FALSE
  ELSE x = NegInf \/ y = PosInf
RLe(x, y) == ~IsNaN(x) /\ ~IsNaN(y) /\ (x = y \/ RLt(x, y))
RGt(x, y) == RLt(y, x)
RGe(x, y) == RLe(y, x)
\* the === of two numbers
REq(x, y) == ~IsNaN(x) /\ ~IsNaN(y) /\ x = y

\* Math.floor of a finite number, as an integer
Floor(x) == x[1] \div x[2]

RECURSIVE ISqrtIn(_, _, _)
ISqrtIn(n, lo, hi) ==
  IF lo >= hi THEN lo
  ELSE LET mid == (lo + hi + 1) \div 2
       IN  IF mid * mid <= n THEN ISqrtIn(n, mid, hi) ELSE ISqrtIn(n, lo, mid - 1)
\* the integer square root of n >= 0 (46340 is the largest root of a 32 bit integer)
ISqrt(n) == ISqrtIn(n, 0, IF n < 46340 THEN n ELSE 46340)
IsSquare(n) == With(ISqrt(n), LAMBDA root : root * root = n)

\* Math.sqrt: exact on squares of rationals, otherwise rounded down to a
\* multiple of 1/64 (the model's analogue of rounding to a double)
Sqrt(x) ==
  IF IsNaN(x) \/ x[1] < 0 THEN NaN
  ELSE IF IsInf(x) THEN PosInf
  ELSE With(ISqrt(x[1]), LAMBDA n :
       With(ISqrt(x[2]), LAMBDA d :
         IF n * n = x[1] /\ d * d = x[2] THEN Q(n, d)
         ELSE Q(ISqrt((x[1] * 4096) \div x[2]), 64)))

\* Math.pow(x, e) for x >= 0 and the exponents 0.5 * alpha the model uses
Pow(x, e) ==
  IF e = One THEN x
  ELSE IF e = Half \/ e = Q(1, 4)
  THEN With(Sqrt(x), LAMBDA root : IF e = Half THEN root ELSE Sqrt(root))
  ELSE NaN

(***************************************************************************)
(* core/math.ts, core/utils.ts: vectors                                    *)
(***************************************************************************)
\* undefined (or null) where a vector, an array or a Map is expected
UNDEFINED == <<>>

\* the loop runs over the coordinates of u; a coordinate v does not have
\* reads as undefined, which is NaN in the subtraction
RECURSIVE SumSq(_, _, _)
SumSq(u, v, i) ==
  IF i > Len(u) THEN Zero
  ELSE With(RSub(u[i], IF i <= Len(v) THEN v[i] ELSE NaN), LAMBDA d :
         RAdd(RMul(d, d), SumSq(u, v, i + 1)))
sumOfSquares(u, v) == SumSq(u, v, 1)

magnitude(v) == Sqrt(SumSq(v, [i \in 1..Len(v) |-> Zero], 1))

distance(p1, p2) ==
  With(sumOfSquares(p1, p2), LAMBDA sqrs :
    IF REq(sqrs, Zero) THEN Zero ELSE Sqrt(sqrs))

RECURSIVE DotSum(_, _, _)
DotSum(v1, v2, k) ==
  IF k > Len(v1) THEN Zero
  ELSE RAdd(RMul(v1[k], v2[k]), DotSum(v1, v2, k + 1))

\* dot: the only one of the two-vector functions that compares the lengths
dot(v1, v2) ==
  IF Len(v1) # Len(v2) THEN Thrown ELSE Ok(DotSum(v1, v2, 1))

\* v[2] || 0: a missing, zero or NaN third coordinate reads as 0
ThirdOrZero(v) ==
  IF Len(v) < 3 \/ IsNaN(v[3]) \/ v[3] = Zero THEN Zero ELSE v[3]

\* cross without a target: undefined for more than 3 dimensions of v1,
\* otherwise a new 3d vector; the length of v2 is never looked at
cross(v1, v2) ==
  IF Len(v1) > 3 THEN Ok(UNDEFINED)
  ELSE With(ThirdOrZero(v1), LAMBDA az :
       With(ThirdOrZero(v2), LAMBDA bz :
         Ok(<<RSub(RMul(v1[2], bz), RMul(az, v2[2])),
              RSub(RMul(az, v2[1]), RMul(v1[1], bz)),
              RSub(RMul(v1[1], v2[2]), RMul(v1[2], v2[1]))>>)))

\* orthogonal without a target: the rotated input vector
orthogonal(v) ==
  IF Len(v) > 2 THEN Thrown ELSE Ok(<<RNeg(v[2]), v[1]>>)

\* copyValues without a target: a new array with the values of source
copyValues(source) == [i \in 1..Len(source) |-> source[i]]

clamp(value, min, max) ==
  IF RLt(value, min) THEN min
  ELSE IF RGt(value, max) THEN max
  ELSE value

(***************************************************************************)
(* core/spline-curve.ts                                                    *)
(***************************************************************************)
\* a phantom point mirrored about the wrong point (a seeded fault)
extrapolateControlPointSwapped(u, v) ==
  [i \in 1..Len(u) |-> RSub(RMul(I(2), v[i]), u[i])]

extrapolateControlPoint(u, v) ==
  [i \in 1..Len(u) |-> RSub(RMul(I(2), u[i]), v[i])]

\* points[i] of a JavaScript array: undefined outside 0..length-1
At(points, i) ==
  IF i \in 0..(Len(points) - 1) THEN points[i + 1] ELSE UNDEFINED

\* a selector whose closed branch does not wrap p0 around (a seeded fault)
getControlPointsNoWrap(idx, points, closed) ==
  LET maxIndex == Len(points) - 1
  IN  IF closed
      THEN Ok(<< At(points, idx - 1),
                 At(points, idx % Len(points)),
                 At(points, (idx + 1) % Len(points)),
                 At(points, (idx + 2) % Len(points)) >>)
      ELSE IF idx = maxIndex THEN Thrown
      ELSE LET p1 == At(points, idx)
               p2 == At(points, idx + 1)
           IN  IF (idx <= 0 /\ p1 = UNDEFINED) \/ (idx >= maxIndex - 1 /\ p2 = UNDEFINED)
               THEN Thrown
               ELSE Ok(<< IF idx > 0 THEN At(points, idx - 1)
                                     ELSE extrapolateControlPoint(p1, p2),
                          p1, p2,
                          IF idx < maxIndex - 1 THEN At(points, idx + 2)
                                                ELSE extrapolateControlPoint(p2, p1) >>)

\* the control points <<p0, p1, p2, p3>> of segment idx.  It throws for the
\* index after the last segment of an open curve, and where
\* extrapolateControlPoint reads the length of an undefined point.
getControlPoints(idx, points, closed) ==
  LET maxIndex == Len(points) - 1
  IN  IF closed
      THEN Ok(<< At(points, IF idx - 1 < 0 THEN maxIndex ELSE idx - 1),
                 At(points, idx % Len(points)),
                 At(points, (idx + 1) % Len(points)),
                 At(points, (idx + 2) % Len(points)) >>)
      ELSE IF idx = maxIndex THEN Thrown
      ELSE LET p1 == At(points, idx)
               p2 == At(points, idx + 1)
           IN  IF (idx <= 0 /\ p1 = UNDEFINED) \/ (idx >= maxIndex - 1 /\ p2 = UNDEFINED)
               THEN Thrown
               ELSE Ok(<< IF idx > 0 THEN At(points, idx - 1)
                                     ELSE extrapolateControlPoint(p1, p2),
                          p1, p2,
                          IF idx < maxIndex - 1 THEN At(points, idx + 2)
                                                ELSE extrapolateControlPoint(p2, p1) >>)

\* segment count: closed ? points.length : points.length - 1
SegmentCount(points, closed) == IF closed THEN Len(points) ELSE Len(points) - 1

getSegmentIndexAndT(ct, points, closed) ==
  With(SegmentCount(points, closed), LAMBDA nPoints :
    IF REq(ct, One) THEN [index |-> nPoints - 1, weight |-> One]
    ELSE With(RMul(I(nPoints), ct), LAMBDA p :
           [index |-> Floor(p), weight |-> RSub(p, I(Floor(p)))]))

(***************************************************************************)
(* core/spline-segment.ts                                                  *)
(***************************************************************************)
calcKnotSequence(p0, p1, p2, p3, alpha) ==
  IF REq(alpha, Zero) THEN <<Zero, One, I(2), I(3)>>
  ELSE With(<<p0, p1, p2, p3>>, LAMBDA p :
       With([j \in 1..3 |-> Pow(sumOfSquares(p[j + 1], p[j]), RMul(Half, alpha))],
            LAMBDA deltaT :
       With(RAdd(deltaT[2], deltaT[1]), LAMBDA t2 :
         <<Zero, deltaT[1], t2, RAdd(deltaT[3], t2)>>)))

\* velocity terms that divide by every knot difference, zero or not
VelocityUnguarded(v0, v1, v2, v3, tension, knotSequence) ==
  With(RSub(One, tension), LAMBDA k1 :
  With(<<v0, v1, v2, v3>>, LAMBDA vs :
  With([i \in 1..4 |-> [j \in 1..4 |-> RSub(vs[i], vs[j])]], LAMBDA dv :
    IF knotSequence = UNDEFINED
    THEN << RMul(RMul(k1, dv[3][1]), Half), RMul(RMul(k1, dv[4][2]), Half) >>
    ELSE With([i \in 1..4 |-> [j \in 1..4 |->
                 RSub(knotSequence[i], knotSequence[j])]], LAMBDA dt :
           << RMul(RMul(k1, dt[3][2]),
                   RAdd(RSub(RDiv(dv[1][2], dt[1][2]), RDiv(dv[1][3], dt[1][3])),
                        RDiv(dv[2][3], dt[2][3]))),
              RMul(RMul(k1, dt[3][2]),
                   RAdd(RSub(RDiv(dv[2][3], dt[2][3]), RDiv(dv[2][4], dt[2][4])),
                        RDiv(dv[3][4], dt[3][4]))) >>))))

\* the velocity terms <<u, v>> of one axis
Velocity(v0, v1, v2, v3, tension, knotSequence) ==
  With(RSub(One, tension), LAMBDA k1 :
  With(<<v0, v1, v2, v3>>, LAMBDA vs :
  With([i \in 1..4 |-> [j \in 1..4 |-> RSub(vs[i], vs[j])]], LAMBDA dv :
    IF knotSequence = UNDEFINED
    THEN << RMul(RMul(k1, dv[3][1]), Half), RMul(RMul(k1, dv[4][2]), Half) >>
    ELSE With([i \in 1..4 |-> [j \in 1..4 |->
                 RSub(knotSequence[i], knotSequence[j])]], LAMBDA dt :
           IF ~REq(dt[2][3], Zero)
           THEN << IF ~REq(dt[1][2], Zero) /\ ~REq(dt[1][3], Zero)
                   THEN RMul(RMul(k1, dt[3][2]),
                          RAdd(RSub(RDiv(dv[1][2], dt[1][2]),
                                    RDiv(dv[1][3], dt[1][3])),
                               RDiv(dv[2][3], dt[2][3])))
                   ELSE Zero,
                   IF ~REq(dt[2][4], Zero) /\ ~REq(dt[3][4], Zero)
                   THEN RMul(RMul(k1, dt[3][2]),
                          RAdd(RSub(RDiv(dv[2][3], dt[2][3]),
                                    RDiv(dv[2][4], dt[2][4])),
                               RDiv(dv[3][4], dt[3][4])))
                   ELSE Zero >>
           ELSE <<Zero, Zero>>))))

\* coefficients whose b takes u once instead of twice (a seeded fault)
AxisCoefficientsSingleU(v1, v2, u, v) ==
  << RAdd(RAdd(RSub(RMul(I(2), v1), RMul(I(2), v2)), u), v),
     RSub(RSub(RAdd(RMul(I(-3), v1), RMul(I(3), v2)), u), v),
     u,
     v1 >>

\* the coefficients <<a, b, c, d>> of one axis from its velocity terms
AxisCoefficients(v1, v2, u, v) ==
  << RAdd(RAdd(RSub(RMul(I(2), v1), RMul(I(2), v2)), u), v),
     RSub(RSub(RAdd(RMul(I(-3), v1), RMul(I(3), v2)), RMul(I(2), u)), v),
     u,
     v1 >>

calculateCoefficients(p0, p1, p2, p3, optTension, optAlpha) ==
  With(IF IsFinite(optTension) THEN optTension ELSE Half, LAMBDA tension :
  With(IF IsFinite(optAlpha) /\ RGt(optAlpha, Zero)
       THEN calcKnotSequence(p0, p1, p2, p3, optAlpha)
       ELSE UNDEFINED, LAMBDA knotSequence :
    [k \in 1..Len(p0) |->
       With(Velocity(p0[k], p1[k], p2[k], p3[k], tension, knotSequence), LAMBDA uv :
         AxisCoefficients(p1[k], p2[k], uv[1], uv[2]))]))

valueAtT(t, coefficients) ==
  With(RMul(t, t), LAMBDA t2 :
    RAdd(RAdd(RAdd(RMul(coefficients[1], RMul(t, t2)), RMul(coefficients[2], t2)),
              RMul(coefficients[3], t)),
         coefficients[4]))

derivativeAtT(t, coefficients) ==
  RAdd(RAdd(RMul(RMul(I(3), coefficients[1]), RMul(t, t)),
            RMul(RMul(I(2), coefficients[2]), t)),
       coefficients[3])

\* a SegmentFunction, passed by name, applied to the coefficients of one axis
SegmentFunction(func, t, coefficients) ==
  IF func = "valueAtT" THEN valueAtT(t, coefficients)
  ELSE derivativeAtT(t, coefficients)

evaluateForT(func, t, coefficients) ==
  [k \in 1..Len(coefficients) |-> SegmentFunction(func, t, coefficients[k])]

(***************************************************************************)
(* core/utils.ts: binarySearch                                             *)
(***************************************************************************)
\* accumulatedValues[i] of a JavaScript number array (NaN stands for the
\* undefined an index outside the array yields once it is used in arithmetic)
NumAt(arr, i) == IF i \in 0..(Len(arr) - 1) THEN arr[i + 1] ELSE NaN

\* a search that leaves the loop with the upper bracket (a seeded fault)
RECURSIVE BinarySearchLoopLeft(_, _, _, _)
BinarySearchLoopLeft(targetValue, accumulatedValues, left, right) ==
  IF left <= right
  THEN LET mid == (left + right) \div 2
           lMid == NumAt(accumulatedValues, mid)
       IN  IF RLt(lMid, targetValue)
           THEN BinarySearchLoopLeft(targetValue, accumulatedValues, mid + 1, right)
           ELSE IF RGt(lMid, targetValue)
           THEN BinarySearchLoopLeft(targetValue, accumulatedValues, left, mid - 1)
           ELSE mid
  ELSE left

binarySearchUpper(targetValue, accumulatedValues) ==
  LET min == NumAt(accumulatedValues, 0)
      max == NumAt(accumulatedValues, Len(accumulatedValues) - 1)
  IN  IF RGe(targetValue, max) THEN Len(accumulatedValues) - 1
      ELSE IF RLe(targetValue, min) THEN 0
      ELSE BinarySearchLoopLeft(targetValue, accumulatedValues, 0,
                                Len(accumulatedValues) - 1)

RECURSIVE BinarySearchLoop(_, _, _, _)
BinarySearchLoop(targetValue, accumulatedValues, left, right) ==
  IF left <= right
  THEN LET mid == (left + right) \div 2
           lMid == NumAt(accumulatedValues, mid)
       IN  IF RLt(lMid, targetValue)
           THEN BinarySearchLoop(targetValue, accumulatedValues, mid + 1, right)
           ELSE IF RGt(lMid, targetValue)
           THEN BinarySearchLoop(targetValue, accumulatedValues, left, mid - 1)
           ELSE mid
  ELSE IF right > 0 THEN right ELSE 0

binarySearch(targetValue, accumulatedValues) ==
  LET min == NumAt(accumulatedValues, 0)
      max == NumAt(accumulatedValues, Len(accumulatedValues) - 1)
  IN  IF RGe(targetValue, max) THEN Len(accumulatedValues) - 1
      ELSE IF RLe(targetValue, min) THEN 0
      ELSE BinarySearchLoop(targetValue, accumulatedValues, 0,
                            Len(accumulatedValues) - 1)

(***************************************************************************)
(* curve-mappers/abstract-curve-mapper.ts                                  *)
(*                                                                         *)
(* A mapper object is the record m = [points, tension, alpha, closed,      *)
(* cache]; a method is an operator from m (and its arguments) to the       *)
(* record [m |-> the mapper afterwards, r |-> Ok(value) or Thrown].        *)
(* points = UNDEFINED until the points setter has succeeded.               *)
(* cache.coefficients and cache.samples are null (coefNull, samplesNull)   *)
(* or a Map, modelled as a function from segment indices; cache.arcLengths *)
(* is null (UNDEFINED) or the table.  computed is a history of the cache   *)
(* object: how often calculateCoefficients has run for a segment index     *)
(* since the object was created.                                           *)
(***************************************************************************)
EmptyCache ==
  [coefNull |-> TRUE, coef |-> <<>>, arcLengths |-> UNDEFINED,
   samplesNull |-> TRUE, samples |-> <<>>, computed |-> <<>>]

\* the mapper after construction (field initialisers and constructor)
NewMapper ==
  [points |-> UNDEFINED, tension |-> Half, alpha |-> Zero, closed |-> FALSE,
   cache |-> EmptyCache]

Res(m, r) == [m |-> m, r |-> r]

\* Map.set(key, value)
MapSet(map, key, value) ==
  [k \in (DOMAIN map) \cup {key} |-> IF k = key THEN value ELSE map[k]]

\* one more run of calculateCoefficients for the segment idx
Counted(computed, idx) ==
  MapSet(computed, idx, IF idx \in DOMAIN computed THEN computed[idx] + 1 ELSE 1)

\* a getCoefficients that does not ask the Map first (a seeded fault)
getCoefficientsUncached(m, idx) ==
  IF m.points = UNDEFINED THEN Res(m, Ok(UNDEFINED))
  ELSE With(IF m.cache.coefNull
            THEN [m EXCEPT !.cache.coefNull = FALSE, !.cache.coef = <<>>]
            ELSE m, LAMBDA m1 :
       With(getControlPoints(idx, m1.points, m1.closed), LAMBDA cp :
            IF ~cp.ok \/ (\E j \in 1..4 : cp.v[j] = UNDEFINED)
            THEN Res(m1, Thrown)
            ELSE With(calculateCoefficients(cp.v[1], cp.v[2], cp.v[3], cp.v[4],
                                            m1.tension, m1.alpha),
                      LAMBDA coefficients :
                 Res([m1 EXCEPT !.cache.coef =
                        MapSet(m1.cache.coef, idx, coefficients),
                                !.cache.computed = Counted(@, idx)],
                     Ok(coefficients)))))

getCoefficients(m, idx) ==
  IF m.points = UNDEFINED THEN Res(m, Ok(UNDEFINED))
  ELSE With(IF m.cache.coefNull
            THEN [m EXCEPT !.cache.coefNull = FALSE, !.cache.coef = <<>>]
            ELSE m, LAMBDA m1 :
       IF idx \in DOMAIN m1.cache.coef
       THEN Res(m1, Ok(m1.cache.coef[idx]))
       ELSE With(getControlPoints(idx, m1.points, m1.closed), LAMBDA cp :
            IF ~cp.ok \/ (\E j \in 1..4 : cp.v[j] = UNDEFINED)
            THEN Res(m1, Thrown)
            ELSE With(calculateCoefficients(cp.v[1], cp.v[2], cp.v[3], cp.v[4],
                                            m1.tension, m1.alpha),
                      LAMBDA coefficients :
                 Res([m1 EXCEPT !.cache.coef =
                        MapSet(m1.cache.coef, idx, coefficients),
                                !.cache.computed = Counted(@, idx)],
                     Ok(coefficients)))))

\* a getPointAtT that ends a closed curve at its last point (a seeded fault)
getPointAtTOpenEnd(m, t0) ==
  IF m.points = UNDEFINED THEN Res(m, Thrown)
  ELSE With(clamp(t0, Zero, One), LAMBDA t :
       IF REq(t, Zero) THEN Res(m, Ok(copyValues(m.points[1])))
       ELSE IF REq(t, One) THEN Res(m, Ok(copyValues(m.points[Len(m.points)])))
       ELSE With(getSegmentIndexAndT(t, m.points, m.closed), LAMBDA s :
            With(getCoefficients(m, s.index), LAMBDA c :
              IF ~c.r.ok THEN c
              ELSE Res(c.m, Ok(evaluateForT("valueAtT", s.weight, c.r.v))))))

getPointAtT(m, t0) ==
  IF m.points = UNDEFINED THEN Res(m, Thrown)
  ELSE With(clamp(t0, Zero, One), LAMBDA t :
       IF REq(t, Zero) THEN Res(m, Ok(copyValues(m.points[1])))
       ELSE IF REq(t, One)
       THEN Res(m, Ok(copyValues(IF m.closed THEN m.points[1]
                                 ELSE m.points[Len(m.points)])))
       ELSE With(getSegmentIndexAndT(t, m.points, m.closed), LAMBDA s :
            With(getCoefficients(m, s.index), LAMBDA c :
              IF ~c.r.ok THEN c
              ELSE Res(c.m, Ok(evaluateForT("valueAtT", s.weight, c.r.v))))))

\* the object a method returns its vector in: the target given, or a new
\* Array (copyValues and evaluateForT: target = target || new Array(n))
TargetOrNew(target) == IF target # UNDEFINED THEN target ELSE "new Array"

\* a getPointAtT whose endpoint shortcut returns the stored control point
getPointAtTObjectStored(m, t0) ==
  With(clamp(t0, Zero, One), LAMBDA t :
    IF REq(t, Zero) THEN <<"points", 1>>
    ELSE IF REq(t, One)
    THEN <<"points", IF m.closed THEN 1 ELSE Len(m.points)>>
    ELSE TargetOrNew(UNDEFINED))

\* the object getPointAtT(t) returns when no target is given: the result of
\* copyValues at the endpoints and of evaluateForT elsewhere
getPointAtTObject(m, t0) ==
  With(clamp(t0, Zero, One), LAMBDA t :
    IF REq(t, Zero) THEN TargetOrNew(UNDEFINED)
    ELSE IF REq(t, One) THEN TargetOrNew(UNDEFINED)
    ELSE TargetOrNew(UNDEFINED))

\* a getTangentAtT that evaluates the segment functions at t as it is given
getTangentAtTAsGiven(m, t0) ==
  IF m.points = UNDEFINED THEN Res(m, Thrown)
  ELSE With(getSegmentIndexAndT(t0, m.points, m.closed), LAMBDA s :
       With(getCoefficients(m, s.index), LAMBDA c :
         IF ~c.r.ok THEN c
         ELSE Res(c.m, Ok(evaluateForT("derivativeAtT", s.weight, c.r.v)))))

getTangentAtT(m, t0) ==
  IF m.points = UNDEFINED THEN Res(m, Thrown)
  ELSE With(getSegmentIndexAndT(clamp(t0, Zero, One), m.points, m.closed), LAMBDA s :
       With(getCoefficients(m, s.index), LAMBDA c :
         IF ~c.r.ok THEN c
         ELSE Res(c.m, Ok(evaluateForT("derivativeAtT", s.weight, c.r.v)))))

\* the outcome of getT and getU: the result r, with the indices of the arc
\* length table (reads) and of the segments (segs) the call has used
Res2(m, r, reads, segs) == [m |-> m, r |-> r, reads |-> reads, segs |-> segs]

(***************************************************************************)
(* curve-mappers/linear-curve-mapper.ts                                    *)
(***************************************************************************)
RECURSIVE LinearArcLoop(_, _, _, _, _)
LinearArcLoop(m, p, last, sum, lengths) ==
  IF p > SubDivisions THEN Res(m, Ok(lengths))
  ELSE With(getPointAtT(m, Q(p, SubDivisions)), LAMBDA current :
       IF ~current.r.ok THEN current
       ELSE IF p = 0
       THEN LinearArcLoop(current.m, 1, current.r.v, Zero, <<Zero>>)
       ELSE With(RAdd(sum, distance(current.r.v, last)), LAMBDA sum2 :
              LinearArcLoop(current.m, p + 1, current.r.v, sum2,
                            Append(lengths, sum2))))

LinearComputeArcLengths(m) == LinearArcLoop(m, 0, UNDEFINED, Zero, <<>>)

\* get arcLengths()
LinearArcLengths(m) ==
  IF m.cache.arcLengths = UNDEFINED
  THEN With(LinearComputeArcLengths(m), LAMBDA c :
         IF ~c.r.ok THEN c
         ELSE Res([c.m EXCEPT !.cache.arcLengths = c.r.v], c.r))
  ELSE Res(m, Ok(m.cache.arcLengths))

\* lengthAt reading the first entry of the table in place of the last
LinearLengthAtFirstEntry(m, u) ==
  With(LinearArcLengths(m), LAMBDA a :
    IF ~a.r.ok THEN a
    ELSE Res(a.m, Ok(RMul(u, NumAt(a.r.v, 0)))))

LinearLengthAt(m, u) ==
  With(LinearArcLengths(m), LAMBDA a :
    IF ~a.r.ok THEN a
    ELSE Res(a.m, Ok(RMul(u, NumAt(a.r.v, Len(a.r.v) - 1)))))

LinearGetT(m, u) ==
  With(LinearArcLengths(m), LAMBDA a :
    IF ~a.r.ok THEN Res2(a.m, Thrown, {}, {})
    ELSE
      With(a.r.v, LAMBDA arcLengths :
      With(Len(arcLengths), LAMBDA il :
      With(RMul(u, NumAt(arcLengths, il - 1)), LAMBDA targetArcLength :
      With(binarySearch(targetArcLength, arcLengths), LAMBDA i :
        IF REq(NumAt(arcLengths, i), targetArcLength)
        THEN Res2(a.m, Ok(RDiv(I(i), I(il - 1))), {il - 1, i}, {})
        ELSE LET lengthBefore == NumAt(arcLengths, i)
                 lengthAfter == NumAt(arcLengths, i + 1)
                 segmentLength == RSub(lengthAfter, lengthBefore)
                 segmentFraction ==
                   RDiv(RSub(targetArcLength, lengthBefore), segmentLength)
             IN  Res2(a.m, Ok(RDiv(RAdd(I(i), segmentFraction), I(il - 1))),
                      {il - 1, i, i + 1}, {}))))))

LinearGetU(m, t) ==
  IF REq(t, Zero) THEN Res2(m, Ok(Zero), {}, {})
  ELSE IF REq(t, One) THEN Res2(m, Ok(One), {}, {})
  ELSE
    With(LinearArcLengths(m), LAMBDA a :
      IF ~a.r.ok THEN Res2(a.m, Thrown, {}, {})
      ELSE
        With(a.r.v, LAMBDA arcLengths :
        With(Len(arcLengths) - 1, LAMBDA al :
        With(RMul(t, I(al)), LAMBDA tIdx :
        With(Floor(tIdx), LAMBDA subIdx :
          LET totalLength == NumAt(arcLengths, al)
              l1 == NumAt(arcLengths, subIdx)
          IN  IF REq(tIdx, I(subIdx))
              THEN Res2(a.m, Ok(RDiv(l1, totalLength)), {al, subIdx}, {})
              ELSE With(getPointAtT(a.m, RDiv(I(subIdx), I(al))), LAMBDA p0 :
                   With(getPointAtT(p0.m, t), LAMBDA p1 :
                     IF ~p0.r.ok \/ ~p1.r.ok
                     THEN Res2(p1.m, Thrown, {al, subIdx}, {})
                     ELSE Res2(p1.m,
                               Ok(RDiv(RAdd(l1, distance(p0.r.v, p1.r.v)),
                                       totalLength)),
                               {al, subIdx}, {}))))))))

(***************************************************************************)
(* curve-mappers/numerical-curve-mapper.ts                                 *)
(***************************************************************************)
\* getGaussianQuadraturePointsAndWeights(1): the Gauss-Legendre rule with one
\* abscissa, 0, of weight 2 (the only rule whose abscissae are rational)
gauss == << <<Zero, I(2)>> >>

RECURSIVE GaussSum(_, _, _, _)
GaussSum(coefficients, z, t0, i) ==
  IF i > Len(gauss) THEN Zero
  ELSE LET T == gauss[i][1]
           C == gauss[i][2]
           t == RAdd(RAdd(RMul(z, T), z), t0)
           dtln == magnitude(evaluateForT("derivativeAtT", t, coefficients))
       IN  RAdd(RMul(C, dtln), GaussSum(coefficients, z, t0, i + 1))

computeArcLength(m, index, t0, t1) ==
  With(getCoefficients(m, index), LAMBDA c :
    IF ~c.r.ok \/ c.r.v = UNDEFINED THEN Res(c.m, Thrown)
    ELSE With(RMul(RSub(t1, t0), Half), LAMBDA z :
           Res(c.m, Ok(RMul(z, GaussSum(c.r.v, z, t0, 1))))))

RECURSIVE NumericalArcLoop(_, _, _, _)
NumericalArcLoop(m, i, tl, lengths) ==
  IF i >= SegmentCount(m.points, m.closed) THEN Res(m, Ok(lengths))
  ELSE With(computeArcLength(m, i, Zero, One), LAMBDA length :
       IF ~length.r.ok THEN length
       ELSE With(RAdd(tl, length.r.v), LAMBDA tl2 :
              NumericalArcLoop(length.m, i + 1, tl2, Append(lengths, tl2))))

\* computeArcLengths counting points.length - 1 segments on a closed curve too
NumericalComputeArcLengthsOpen(m) ==
  IF m.points = UNDEFINED THEN Res(m, Ok(UNDEFINED))
  ELSE With(NumericalArcLoop([m EXCEPT !.closed = FALSE], 0, Zero, <<Zero>>),
            LAMBDA c : Res([c.m EXCEPT !.closed = m.closed], c.r))

NumericalComputeArcLengths(m) ==
  IF m.points = UNDEFINED THEN Res(m, Ok(UNDEFINED))
  ELSE NumericalArcLoop(m, 0, Zero, <<Zero>>)

\* get arcLengths()
NumericalArcLengths(m) ==
  IF m.cache.arcLengths = UNDEFINED
  THEN With(NumericalComputeArcLengths(m), LAMBDA c :
         IF ~c.r.ok THEN c
         ELSE Res([c.m EXCEPT !.cache.arcLengths = c.r.v], c.r))
  ELSE Res(m, Ok(m.cache.arcLengths))

\* the first loop of getSamples: sample i of segment idx, lengths and slopes
RECURSIVE SampleLoop(_, _, _, _, _, _)
SampleLoop(m, idx, coefficients, i, lengths, slopes) ==
  IF i >= NSamples THEN Res(m, Ok(<<lengths, slopes>>))
  ELSE With(RDiv(I(i), I(NSamples - 1)), LAMBDA ti :
       With(computeArcLength(m, idx, Zero, ti), LAMBDA l :
         IF ~l.r.ok THEN l
         ELSE With(magnitude(evaluateForT("derivativeAtT", ti, coefficients)),
                   LAMBDA dtln :
                SampleLoop(l.m, idx, coefficients, i + 1, Append(lengths, l.r.v),
                           Append(slopes, IF REq(dtln, Zero) THEN Zero
                                          ELSE RDiv(One, dtln))))))

\* the second loop of getSamples: the coefficients <<ci, di>> of interval i
InverseCoefficients(lengths, slopes, i) ==
  With(RSub(NumAt(lengths, i + 1), NumAt(lengths, i)), LAMBDA lDiff :
  With(RDiv(RDiv(One, I(NSamples - 1)), lDiff), LAMBDA si :
    LET tdi == NumAt(slopes, i)
        tdi_next == NumAt(slopes, i + 1)
        di == RDiv(RSub(RAdd(tdi, tdi_next), RMul(I(2), si)), RMul(lDiff, lDiff))
        ci == RDiv(RSub(RSub(RMul(I(3), si), RMul(I(2), tdi)), tdi_next), lDiff)
    IN  <<ci, di>>))

getSamples(m, idx) ==
  IF m.points = UNDEFINED THEN Res(m, Ok(UNDEFINED))
  ELSE With(IF m.cache.samplesNull
            THEN [m EXCEPT !.cache.samplesNull = FALSE, !.cache.samples = <<>>]
            ELSE m, LAMBDA m1 :
       IF idx \in DOMAIN m1.cache.samples
       THEN Res(m1, Ok(m1.cache.samples[idx]))
       ELSE With(getCoefficients(m1, idx), LAMBDA c :
            IF ~c.r.ok THEN c
            ELSE With(SampleLoop(c.m, idx, c.r.v, 0, <<>>, <<>>), LAMBDA ls :
                 IF ~ls.r.ok THEN ls
                 ELSE With([i \in 1..(NSamples - 1) |->
                              InverseCoefficients(ls.r.v[1], ls.r.v[2], i - 1)],
                           LAMBDA cd :
                      With(<< ls.r.v[1], ls.r.v[2],
                              [i \in 1..(NSamples - 1) |-> cd[i][1]],
                              [i \in 1..(NSamples - 1) |-> cd[i][2]] >>,
                           LAMBDA samples :
                        Res([ls.m EXCEPT !.cache.samples =
                               MapSet(ls.m.cache.samples, idx, samples)],
                            Ok(samples)))))))

inverse(m, idx, len) ==
  With(getSamples(m, idx), LAMBDA g :
    IF ~g.r.ok \/ g.r.v = UNDEFINED THEN Res(g.m, Thrown)
    ELSE
      LET step == RDiv(One, I(NSamples - 1))
          lengths == g.r.v[1]
          slopes == g.r.v[2]
          cis == g.r.v[3]
          dis == g.r.v[4]
          length == NumAt(lengths, Len(lengths) - 1)
      IN  IF RGe(len, length) THEN Res(g.m, Ok(One))
          ELSE IF RLe(len, Zero) THEN Res(g.m, Ok(Zero))
          ELSE With(binarySearch(len, lengths), LAMBDA b :
               With(IF b > 0 THEN b ELSE 0, LAMBDA i :
               With(RMul(I(i), step), LAMBDA ti :
                 IF REq(NumAt(lengths, i), len) THEN Res(g.m, Ok(ti))
                 ELSE With(RSub(len, NumAt(lengths, i)), LAMBDA ld :
                        Res(g.m,
                            Ok(RAdd(RMul(RAdd(RMul(RAdd(RMul(NumAt(dis, i), ld),
                                                        NumAt(cis, i)), ld),
                                              NumAt(slopes, i)), ld), ti))))))))

NumericalLengthAt(m, u) ==
  With(NumericalArcLengths(m), LAMBDA a :
    IF ~a.r.ok \/ a.r.v = UNDEFINED THEN Res(a.m, Thrown)
    ELSE Res(a.m, Ok(RMul(u, NumAt(a.r.v, Len(a.r.v) - 1)))))

NumericalGetT(m, u) ==
  With(NumericalArcLengths(m), LAMBDA a :
    IF ~a.r.ok \/ a.r.v = UNDEFINED THEN Res2(a.m, Thrown, {}, {})
    ELSE
      With(a.r.v, LAMBDA arcLengths :
      With(Len(arcLengths), LAMBDA il :
      With(RMul(u, NumAt(arcLengths, il - 1)), LAMBDA targetArcLength :
      With(binarySearch(targetArcLength, arcLengths), LAMBDA i :
        IF REq(NumAt(arcLengths, i), targetArcLength)
        THEN Res2(a.m, Ok(RDiv(I(i), I(il - 1))), {il - 1, i}, {})
        ELSE With(inverse(a.m, i, RSub(targetArcLength, NumAt(arcLengths, i))),
                  LAMBDA fraction :
               IF ~fraction.r.ok
               THEN Res2(fraction.m, Thrown, {il - 1, i}, {i})
               ELSE Res2(fraction.m,
                         Ok(RDiv(RAdd(I(i), fraction.r.v), I(il - 1))),
                         {il - 1, i}, {i})))))))

NumericalGetU(m, t) ==
  IF REq(t, Zero) THEN Res2(m, Ok(Zero), {}, {})
  ELSE IF REq(t, One) THEN Res2(m, Ok(One), {}, {})
  ELSE
    With(NumericalArcLengths(m), LAMBDA a :
      IF ~a.r.ok \/ a.r.v = UNDEFINED THEN Res2(a.m, Thrown, {}, {})
      ELSE
        With(a.r.v, LAMBDA arcLengths :
        With(Len(arcLengths) - 1, LAMBDA al :
        With(RMul(t, I(al)), LAMBDA tIdx :
        With(Floor(tIdx), LAMBDA subIdx :
          LET totalLength == NumAt(arcLengths, al)
              l1 == NumAt(arcLengths, subIdx)
          IN  IF REq(tIdx, I(subIdx))
              THEN Res2(a.m, Ok(RDiv(l1, totalLength)), {al, subIdx}, {})
              ELSE With(computeArcLength(a.m, subIdx, Zero, RSub(tIdx, I(subIdx))),
                        LAMBDA fraction :
                     IF ~fraction.r.ok
                     THEN Res2(fraction.m, Thrown, {al, subIdx}, {subIdx})
                     ELSE Res2(fraction.m,
                               Ok(RDiv(RAdd(l1, fraction.r.v), totalLength)),
                               {al, subIdx}, {subIdx})))))))

(***************************************************************************)
(* Cache invalidation and the setters                                      *)
(*                                                                         *)
(* A world w = [m, ic, fired, read] is the mapper m with what its          *)
(* onInvalidateCache callback can touch: ic is the _cache of the owning    *)
(* CurveInterpolator, fired counts the invocations of the callback and     *)
(* read collects the segment indices the callback has read.                *)
(*                                                                         *)
(* The callback is injected by the caller (cb):                            *)
(*   "none"    no callback was given to the constructor                    *)
(*   "reader"  a callback that reads mapper.getCoefficients(0) when it is  *)
(*             called, as an owner that re-derives its data eagerly does   *)
(*   "facade"  () => this._invalidateCache() of CurveInterpolator          *)
(***************************************************************************)
\* CurveInterpolator._cache: the bounding box under the key 'bbox' and the
\* lookup tables under their keys lut_<samples>_<from>_<to>
EmptyFacadeCache == [bbox |-> UNDEFINED, lut |-> <<>>]

\* a facade that keeps its Map (a seeded fault)
FacadeKeepCache(ic) == ic

\* CurveInterpolator._invalidateCache
FacadeInvalidateCache(ic) == EmptyFacadeCache

onInvalidateCache(w, cb) ==
  LET w1 == [w EXCEPT !.fired = @ + 1]
  IN  IF cb = "facade" THEN [w1 EXCEPT !.ic = FacadeInvalidateCache(w1.ic)]
      ELSE IF cb = "reader"
      THEN [w1 EXCEPT !.m = getCoefficients(w1.m, 0).m, !.read = @ \cup {0}]
      ELSE w1

\* an _invalidateCache that forgets its callback (a seeded fault)
AbstractInvalidateCacheSilent(w, cb) ==
  IF w.m.points = UNDEFINED THEN w ELSE [w EXCEPT !.m.cache = EmptyCache]

\* AbstractCurveMapper._invalidateCache
AbstractInvalidateCache(w, cb) ==
  IF w.m.points = UNDEFINED THEN w
  ELSE LET w1 == [w EXCEPT !.m.cache = EmptyCache]
       IN  IF cb # "none" THEN onInvalidateCache(w1, cb) ELSE w1

\* LinearCurveMapper._invalidateCache and NumericalCurveMapper._invalidateCache
invalidateCache(w, kind, cb) ==
  With(AbstractInvalidateCache(w, cb), LAMBDA w1 :
    IF kind = "numerical"
    THEN [w1 EXCEPT !.m.cache.arcLengths = UNDEFINED,
                    !.m.cache.samplesNull = TRUE, !.m.cache.samples = <<>>]
    ELSE [w1 EXCEPT !.m.cache.arcLengths = UNDEFINED])

\* the outcome of a setter: the world afterwards, Ok or Thrown, and whether
\* the setter took its assigning branch
SetRes(w, r, changed) == [w |-> w, r |-> r, changed |-> changed]

\* Number.isFinite: false of NaN, of the infinities and, without coercion,
\* of undefined
NumberIsFinite(value) == value # UNDEFINED /\ IsFinite(value)

\* an alpha setter without the Number.isFinite test (a seeded fault)
setAlphaUnguarded(w, kind, cb, a) ==
  IF a # w.m.alpha
  THEN SetRes([invalidateCache(w, kind, cb) EXCEPT !.m.alpha = a], Ok(UNDEFINED), TRUE)
  ELSE SetRes(w, Ok(UNDEFINED), FALSE)

setAlpha(w, kind, cb, a) ==
  IF NumberIsFinite(a) /\ a # w.m.alpha
  THEN SetRes([invalidateCache(w, kind, cb) EXCEPT !.m.alpha = a], Ok(UNDEFINED), TRUE)
  ELSE SetRes(w, Ok(UNDEFINED), FALSE)

\* a tension setter that invalidates whenever the value is finite
setTensionEager(w, kind, cb, t) ==
  IF NumberIsFinite(t)
  THEN SetRes([invalidateCache(w, kind, cb) EXCEPT !.m.tension = t], Ok(UNDEFINED), TRUE)
  ELSE SetRes(w, Ok(UNDEFINED), FALSE)

setTension(w, kind, cb, t) ==
  IF NumberIsFinite(t) /\ t # w.m.tension
  THEN SetRes([invalidateCache(w, kind, cb) EXCEPT !.m.tension = t], Ok(UNDEFINED), TRUE)
  ELSE SetRes(w, Ok(UNDEFINED), FALSE)

\* a points setter that validates after it has assigned (a seeded fault)
setPointsUnchecked(w, kind, cb, pts) ==
  With(invalidateCache([w EXCEPT !.m.points = pts], kind, cb), LAMBDA w1 :
    IF pts = UNDEFINED \/ Len(pts) < 2 THEN SetRes(w1, Thrown, FALSE)
    ELSE SetRes(w1, Ok(UNDEFINED), TRUE))

setPoints(w, kind, cb, pts) ==
  IF pts = UNDEFINED \/ Len(pts) < 2 THEN SetRes(w, Thrown, FALSE)
  ELSE SetRes(invalidateCache([w EXCEPT !.m.points = pts], kind, cb), Ok(UNDEFINED), TRUE)

setClosed(w, kind, cb, c) ==
  IF w.m.closed # c
  THEN SetRes([invalidateCache(w, kind, cb) EXCEPT !.m.closed = c], Ok(UNDEFINED), TRUE)
  ELSE SetRes(w, Ok(UNDEFINED), FALSE)

(***************************************************************************)
(* The two strategies behind the CurveMapper interface                     *)
(***************************************************************************)
lengthAt(m, kind, u) ==
  IF kind = "numerical" THEN NumericalLengthAt(m, u) ELSE LinearLengthAt(m, u)
getT(m, kind, u) ==
  IF kind = "numerical" THEN NumericalGetT(m, u) ELSE LinearGetT(m, u)
getU(m, kind, t) ==
  IF kind = "numerical" THEN NumericalGetU(m, t) ELSE LinearGetU(m, t)

(***************************************************************************)
(* core/math.ts: getQuadRoots                                              *)
(*                                                                         *)
(* EPS = 2^-42.  Every number of the model that is not zero is a ratio of  *)
(* 32 bit integers, or an infinity, and so has a magnitude above EPS:      *)
(* Math.abs(x) < EPS holds of zero only, x > -EPS means x >= 0 and         *)
(* x <= 1 + EPS means x <= 1.                                              *)
(***************************************************************************)
AbsBelowEPS(x) == x = Zero
AboveMinusEPS(x) == RGe(x, Zero)
AtMostOnePlusEPS(x) == RLe(x, One)

\* a getQuadRoots that finds no root
getQuadRootsNone(a, b, c) == <<>>

getQuadRoots(a, b, c) ==
  IF AbsBelowEPS(a)
  THEN (IF AbsBelowEPS(b) THEN <<>> ELSE << RDiv(RNeg(c), b) >>)
  ELSE With(RSub(RMul(b, b), RMul(RMul(I(4), a), c)), LAMBDA D :
       With(RMul(I(2), a), LAMBDA twoA :
         IF AbsBelowEPS(D) THEN << RDiv(RNeg(b), twoA) >>
         ELSE IF RGt(D, Zero)
         THEN With(Sqrt(D), LAMBDA root :
                << RDiv(RAdd(RNeg(b), root), twoA),
                   RDiv(RSub(RNeg(b), root), twoA) >>)
         ELSE <<>>))

(***************************************************************************)
(* core/math.ts: getCubicRoots; core/spline-segment.ts: findRootsOfT       *)
(***************************************************************************)
RECURSIVE ICbrtIn(_, _, _)
ICbrtIn(n, lo, hi) ==
  IF lo >= hi THEN lo
  ELSE With((lo + hi + 1) \div 2, LAMBDA mid :
         IF mid * mid * mid <= n THEN ICbrtIn(n, mid, hi) ELSE ICbrtIn(n, lo, mid - 1))
\* the integer cube root of n >= 0 (1290 is the largest root of a 32 bit integer)
ICbrt(n) == ICbrtIn(n, 0, IF n < 1290 THEN n ELSE 1290)

\* cuberoot: Math.pow(Math.abs(x), 1/3) with the sign of x; exact on cubes of
\* rationals, otherwise rounded down in magnitude to a multiple of 1/8
cuberoot(x) ==
  IF ~IsFinite(x) THEN x
  ELSE With(ICbrt(Abs(x[1])), LAMBDA n :
       With(ICbrt(x[2]), LAMBDA d :
       With(IF n * n * n = Abs(x[1]) /\ d * d * d = x[2] THEN Q(n, d)
            ELSE Q(ICbrt((Abs(x[1]) * 512) \div x[2]), 8), LAMBDA y :
         IF x[1] < 0 THEN RNeg(y) ELSE y)))

\* t^3 + p t + q
DepressedCubic(p, q, t) == RAdd(RAdd(RMul(t, RMul(t, t)), RMul(p, t)), q)

\* t is a root of the depressed cubic, or a root lies between t and t + 1/8
RootAt(p, q, t) ==
  With(DepressedCubic(p, q, t)[1], LAMBDA f0 :
    \/ f0 = 0
    \/ With(DepressedCubic(p, q, RAdd(t, Q(1, 8)))[1], LAMBDA f1 :
         (f0 < 0 /\ f1 > 0) \/ (f0 > 0 /\ f1 < 0)))

\* the branch D < 0: u cos(t), u cos(t - k), u cos(t - 2k) with
\* u = 2 sqrt(-p/3) are the three real roots of the depressed cubic, from the
\* largest to the smallest; exact on multiples of 1/8, otherwise rounded
\* down to one
CosineRoots(p, q) ==
  With(8 * (Floor(RMul(I(2), Sqrt(RDiv(RNeg(p), I(3))))) + 1), LAMBDA n :
    SelectSeq([i \in 1..(2 * n + 1) |-> Q(n + 1 - i, 8)],
              LAMBDA t : RootAt(p, q, t)))

\* the roots of the depressed cubic t^3 + p t + q = 0
DepressedRoots(p, q) ==
  IF AbsBelowEPS(p) THEN << cuberoot(RNeg(q)) >>
  ELSE IF AbsBelowEPS(q)
  THEN <<Zero>> \o (IF RLt(p, Zero)
                    THEN With(Sqrt(RNeg(p)), LAMBDA root : <<root, RNeg(root)>>)
                    ELSE <<>>)
  ELSE With(RAdd(RDiv(RMul(q, q), I(4)), RDiv(RMul(p, RMul(p, p)), I(27))),
            LAMBDA D :
         IF AbsBelowEPS(D)
         THEN << RDiv(RMul(Q(-3, 2), q), p), RDiv(RMul(I(3), q), p) >>
         ELSE IF RGt(D, Zero)
         THEN With(cuberoot(RSub(RDiv(RNeg(q), I(2)), Sqrt(D))), LAMBDA u :
                << RSub(u, RDiv(p, RMul(I(3), u))) >>)
         ELSE CosineRoots(p, q))

getCubicRoots(a, b, c, d) ==
  IF AbsBelowEPS(a) THEN getQuadRoots(b, c, d)
  ELSE With(RDiv(RSub(RMul(RMul(I(3), a), c), RMul(b, b)),
                 RMul(I(3), RMul(a, a))), LAMBDA p :
       With(RDiv(RAdd(RSub(RMul(I(2), RMul(b, RMul(b, b))),
                           RMul(RMul(I(9), a), RMul(b, c))),
                      RMul(RMul(I(27), RMul(a, a)), d)),
                 RMul(I(27), RMul(a, RMul(a, a)))), LAMBDA q :
       With(DepressedRoots(p, q), LAMBDA roots :
       With(RDiv(b, RMul(I(3), a)), LAMBDA shift :
         [i \in 1..Len(roots) |-> RSub(roots[i], shift)]))))

\* a findRootsOfT that keeps every root getCubicRoots finds
findRootsOfTUnfiltered(lookup, coefficients) ==
  With(RSub(coefficients[4], lookup), LAMBDA x :
    IF /\ REq(coefficients[1], Zero) /\ REq(coefficients[2], Zero)
       /\ REq(coefficients[3], Zero) /\ REq(x, Zero)
    THEN <<Zero>>
    ELSE getCubicRoots(coefficients[1], coefficients[2], coefficients[3], x))

\* findRootsOfT(lookup, coefficients): the times t in [0,1] at which the
\* axis with these coefficients has the value lookup
findRootsOfT(lookup, coefficients) ==
  With(RSub(coefficients[4], lookup), LAMBDA x :
    IF /\ REq(coefficients[1], Zero) /\ REq(coefficients[2], Zero)
       /\ REq(coefficients[3], Zero) /\ REq(x, Zero)
    THEN <<Zero>>
    ELSE With(SelectSeq(getCubicRoots(coefficients[1], coefficients[2],
                                      coefficients[3], x),
                        LAMBDA t : AboveMinusEPS(t) /\ AtMostOnePlusEPS(t)),
              LAMBDA roots :
           [i \in 1..Len(roots) |-> clamp(roots[i], Zero, One)]))

(***************************************************************************)
(* curve-interpolator.ts: the facade over a NumericalCurveMapper           *)
(*                                                                         *)
(* The facade is the world w = [m, ic, fired, read]: its mapper and its    *)
(* _cache.  A method is an operator from w to [w, r].                      *)
(***************************************************************************)
WRes(w, r) == [w |-> w, r |-> r]

\* Math.min and Math.max
Min2(x, y) == IF IsNaN(x) \/ IsNaN(y) THEN NaN ELSE IF RLt(y, x) THEN y ELSE x
Max2(x, y) == IF IsNaN(x) \/ IsNaN(y) THEN NaN ELSE IF RGt(y, x) THEN y ELSE x
\* Math.ceil of a finite number, as an integer
Ceil(x) == -((-x[1]) \div x[2])

\* CurveMapper.evaluateForT(valueAtT, t): the point of the segment t falls in
CurveMapperEvaluateForT(m, t) ==
  IF ~IsFinite(t) THEN Res(m, Thrown)
  ELSE With(getSegmentIndexAndT(t, m.points, m.closed), LAMBDA s :
       With(getCoefficients(m, s.index), LAMBDA c :
         IF ~c.r.ok THEN c
         ELSE Res(c.m, Ok(evaluateForT("valueAtT", s.weight, c.r.v)))))

\* CurveInterpolator.getTime: this._curveMapper.getT(position), the curve mapper
\* being the NumericalCurveMapper the constructor makes without arcDivisions
getTime(m, position) == NumericalGetT(m, position)

\* CurveInterpolator.getPointAtTime
getPointAtTime(m, t0) ==
  With(clamp(t0, Zero, One), LAMBDA t :
    IF REq(t, Zero) THEN Res(m, Ok(copyValues(m.points[1])))
    ELSE IF REq(t, One)
    THEN Res(m, Ok(copyValues(IF m.closed THEN m.points[1]
                              ELSE m.points[Len(m.points)])))
    ELSE CurveMapperEvaluateForT(m, t))

\* CurveInterpolator.getPointAt
getPointAt(m, position) ==
  With(getTime(m, position), LAMBDA t :
    IF ~t.r.ok THEN Res(t.m, Thrown) ELSE getPointAtTime(t.m, t.r.v))

\* min and max of one axis widened by the value v
Widen(mm, v) ==
  << IF RLt(v, mm[1]) THEN v ELSE mm[1], IF RGt(v, mm[2]) THEN v ELSE mm[2] >>

RECURSIVE WidenByRoots(_, _, _, _)
WidenByRoots(mm, roots, k, coefficients) ==
  IF k > Len(roots) THEN mm
  ELSE WidenByRoots(Widen(mm, valueAtT(roots[k], coefficients)), roots, k + 1,
                    coefficients)

\* the loop of getBoundingBox over the segments i0 + 1 .. i1; box[c] is
\* <<min[c], max[c]>>
RECURSIVE BBoxLoop(_, _, _, _, _, _, _)
BBoxLoop(m, i, i0, i1, t0, t1, box) ==
  IF i > i1 THEN Res(m, Ok(box))
  ELSE
    With(getControlPoints(i - 1, m.points, m.closed), LAMBDA cp :
      IF ~cp.ok THEN Res(m, Thrown)
      ELSE
        With(IF i < i1 THEN [c \in 1..Len(box) |-> Widen(box[c], cp.v[3][c])]
             ELSE box, LAMBDA box1 :
          IF RLt(m.tension, One)
          THEN LET nPoints == SegmentCount(m.points, m.closed)
                   w0 == RSub(RMul(I(nPoints), t0), I(i - 1))
                   w1 == RSub(RMul(I(nPoints), t1), I(i - 1))
                   valid(t) == /\ AboveMinusEPS(t) /\ AtMostOnePlusEPS(t)
                               /\ (i - 1 # i0 \/ RGt(t, w0))
                               /\ (i # i1 \/ RLt(t, w1))
               IN  With(getCoefficients(m, i - 1), LAMBDA g :
                     IF ~g.r.ok THEN g
                     ELSE BBoxLoop(g.m, i + 1, i0, i1, t0, t1,
                            [c \in 1..Len(box1) |->
                               WidenByRoots(box1[c],
                                 SelectSeq(getQuadRoots(RMul(I(3), g.r.v[c][1]),
                                                        RMul(I(2), g.r.v[c][2]),
                                                        g.r.v[c][3]), valid),
                                 1, g.r.v[c])]))
          ELSE BBoxLoop(m, i + 1, i0, i1, t0, t1, box1)))

\* CurveInterpolator.getBoundingBox(from, to); the box is the sequence of
\* <<min, max>> per axis
getBoundingBox(w, from, to) ==
  IF REq(from, Zero) /\ REq(to, One) /\ w.ic.bbox # UNDEFINED
  THEN WRes(w, Ok(w.ic.bbox))
  ELSE
    With(getTime(w.m, from), LAMBDA g0 :
    With(getTime(g0.m, to), LAMBDA g1 :
      IF ~g0.r.ok \/ ~g1.r.ok \/ ~IsFinite(g0.r.v) \/ ~IsFinite(g1.r.v)
      THEN WRes([w EXCEPT !.m = g1.m], Thrown)
      ELSE
        With(getPointAtTime(g1.m, g0.r.v), LAMBDA start :
        With(getPointAtTime(start.m, g1.r.v), LAMBDA end :
          IF ~start.r.ok \/ ~end.r.ok THEN WRes([w EXCEPT !.m = end.m], Thrown)
          ELSE
            LET t0 == g0.r.v
                t1 == g1.r.v
                nPoints == SegmentCount(end.m.points, end.m.closed)
                i0 == Floor(RMul(I(nPoints), t0))
                i1 == Ceil(RMul(I(nPoints), t1))
                box0 == [c \in 1..Len(start.r.v) |->
                           << Min2(start.r.v[c], end.r.v[c]),
                              Max2(start.r.v[c], end.r.v[c]) >>]
            IN  With(BBoxLoop(end.m, i0 + 1, i0, i1, t0, t1, box0), LAMBDA b :
                  IF ~b.r.ok THEN WRes([w EXCEPT !.m = b.m], Thrown)
                  ELSE WRes([w EXCEPT !.m = b.m,
                                      !.ic.bbox = IF REq(from, Zero) /\ REq(to, One)
                                                  THEN b.r.v ELSE @],
                            b.r))))))

\* the loop of createLookupTable: the entries <<u, point>> in insertion order
RECURSIVE LookupLoop(_, _, _, _, _, _)
LookupLoop(m, d, samples, from, to, lut) ==
  IF d >= samples THEN Res(m, Ok(lut))
  ELSE With(IF REq(from, Zero) /\ REq(to, One)
            THEN RDiv(I(d), I(samples - 1))
            ELSE RAdd(from, RMul(RDiv(I(d), I(samples - 1)), RSub(to, from))),
            LAMBDA u :
       With(getPointAt(m, u), LAMBDA point :
         IF ~point.r.ok THEN point
         ELSE LookupLoop(point.m, d + 1, samples, from, to,
                         Append(lut, <<u, point.r.v>>))))

\* CurveInterpolator.createLookupTable(samples, from, to)
createLookupTable(w, samples, from, to) ==
  IF samples <= 1 THEN WRes(w, Thrown)
  ELSE IF RLt(from, Zero) \/ RGt(to, One) \/ RLt(to, from) THEN WRes(w, Ok(UNDEFINED))
  ELSE LET cacheKey == <<samples, from, to>>
       IN  IF cacheKey \in DOMAIN w.ic.lut THEN WRes(w, Ok(w.ic.lut[cacheKey]))
           ELSE With(LookupLoop(w.m, 0, samples, from, to, <<>>), LAMBDA l :
                  IF ~l.r.ok THEN WRes([w EXCEPT !.m = l.m], Thrown)
                  ELSE WRes([w EXCEPT !.m = l.m,
                                      !.ic.lut = MapSet(w.ic.lut, cacheKey, l.r.v)],
                            l.r))

\* lookup: the solutions of the roots ts[j..] of segment number i (in the
\* order of the loop), added to the solutions found so far
RECURSIVE LookupRoots(_, _, _, _, _, _, _, _)
LookupRoots(ts, j, i, v, k, max, coefficients, solutions) ==
  IF j > Len(ts) THEN solutions
  ELSE IF REq(ts[j], Zero) /\ i > 0
  THEN LookupRoots(ts, j + 1, i, v, k, max, coefficients, solutions)
  ELSE With(Append(solutions,
                   [c \in 1..Len(coefficients) |->
                      IF c # k + 1 THEN valueAtT(ts[j], coefficients[c]) ELSE v]),
            LAMBDA found :
         IF max # 0 /\ Len(found) = Abs(max) THEN found
         ELSE LookupRoots(ts, j + 1, i, v, k, max, coefficients, found))

\* lookup: the loop over the segments, from i on
RECURSIVE LookupSegments(_, _, _, _, _, _, _)
LookupSegments(m, v, k, max, margin, i, solutions) ==
  With(SegmentCount(m.points, m.closed), LAMBDA nPoints :
    IF ~(i < nPoints /\ (max = 0 \/ Len(solutions) < Abs(max)))
    THEN Res(m, Ok(solutions))
    ELSE
      With(IF max < 0 THEN nPoints - (i + 1) ELSE i, LAMBDA idx :
      With(getControlPoints(idx, m.points, m.closed), LAMBDA cp :
      With(getCoefficients(m, idx), LAMBDA g :
        IF ~cp.ok \/ ~g.r.ok THEN Res(g.m, Thrown)
        ELSE
          LET p1 == cp.v[2][k + 1]
              p2 == cp.v[3][k + 1]
              vmin == IF RLt(p1, p2) THEN p1 ELSE p2
              vmax == IF RLt(p1, p2) THEN p2 ELSE p1
          IN  IF RLe(RSub(v, margin), vmax) /\ RGe(RAdd(v, margin), vmin)
              THEN With(findRootsOfT(v, g.r.v[k + 1]), LAMBDA ts :
                     LookupSegments(g.m, v, k, max, margin, i + 1,
                       LookupRoots(IF max < 0
                                   THEN SortSeq(ts, LAMBDA x, y : RGt(x, y))
                                   ELSE SortSeq(ts, LAMBDA x, y : RLt(x, y)),
                                   1, i, v, k, max, g.r.v, solutions)))
              ELSE LookupSegments(g.m, v, k, max, margin, i + 1, solutions)))))

\* what lookup returns: the array of solutions, or the solution itself (a
\* Vector) when one solution was asked for and one was found
LookupResult(solutions, max) ==
  IF Abs(max) = 1 /\ Len(solutions) = 1
  THEN [v |-> solutions[1], ok |-> TRUE, vector |-> TRUE]
  ELSE [v |-> solutions, ok |-> TRUE, vector |-> FALSE]

\* CurveInterpolator.lookup(v, axis, max, margin)
lookup(w, v, axis, max, margin) ==
  With(LookupSegments(w.m, v, axis, max, margin, 0, <<>>), LAMBDA l :
    IF ~l.r.ok THEN WRes([w EXCEPT !.m = l.m], Thrown)
    ELSE WRes([w EXCEPT !.m = l.m], LookupResult(l.r.v, max)))

\* Set.add: the value joins the Set, in insertion order, unless it is in it
SetAdd(solutions, nt) ==
  IF \E n \in 1..Len(solutions) : solutions[n] = nt THEN solutions
  ELSE Append(solutions, nt)

\* lookupPositions: the times of the roots ts[j..] of the segment visited in
\* round i of the loop, normalized with idx and added to the Set
RECURSIVE PositionRoots(_, _, _, _, _, _, _)
PositionRoots(ts, j, i, idx, nPoints, max, solutions) ==
  IF j > Len(ts) THEN solutions
  ELSE IF REq(ts[j], Zero) /\ i > 0
  THEN PositionRoots(ts, j + 1, i, idx, nPoints, max, solutions)
  ELSE With(SetAdd(solutions, RDiv(RAdd(ts[j], I(idx)), I(nPoints))),
            LAMBDA found :
         IF max # 0 /\ Len(found) = Abs(max) THEN found
         ELSE PositionRoots(ts, j + 1, i, idx, nPoints, max, found))

\* lookupPositions: the loop over the segments, from i on.  The control
\* points and the coefficients are those of segment i, for every max; idx
\* only enters the normalized time
RECURSIVE PositionSegments(_, _, _, _, _, _, _)
PositionSegments(m, v, k, max, margin, i, solutions) ==
  With(SegmentCount(m.points, m.closed), LAMBDA nPoints :
    IF ~(i < nPoints /\ (max = 0 \/ Len(solutions) < Abs(max)))
    THEN Res(m, Ok(solutions))
    ELSE
      With(IF max < 0 THEN Len(m.points) - i ELSE i, LAMBDA idx :
      With(getControlPoints(i, m.points, m.closed), LAMBDA cp :
      With(getCoefficients(m, i), LAMBDA g :
        IF ~cp.ok \/ ~g.r.ok THEN Res(g.m, Thrown)
        ELSE
          LET p1 == cp.v[2][k + 1]
              p2 == cp.v[3][k + 1]
              vmin == IF RLt(p1, p2) THEN p1 ELSE p2
              vmax == IF RLt(p1, p2) THEN p2 ELSE p1
          IN  IF RLe(RSub(v, margin), vmax) /\ RGe(RAdd(v, margin), vmin)
              THEN With(findRootsOfT(v, g.r.v[k + 1]), LAMBDA ts :
                     PositionSegments(g.m, v, k, max, margin, i + 1,
                       PositionRoots(IF max < 0
                                     THEN SortSeq(ts, LAMBDA x, y : RGt(x, y))
                                     ELSE SortSeq(ts, LAMBDA x, y : RLt(x, y)),
                                     1, i, idx, nPoints, max, solutions)))
              ELSE PositionSegments(g.m, v, k, max, margin, i + 1, solutions)))))

\* Array.from(solutions).map(t => this._curveMapper.getU(t)), from entry j on;
\* the mapper of a CurveInterpolator without an arcDivisions option of 0 is
\* a NumericalCurveMapper
RECURSIVE PositionsOfTimes(_, _, _, _)
PositionsOfTimes(m, times, j, positions) ==
  IF j > Len(times) THEN Res(m, Ok(positions))
  ELSE With(getU(m, "numerical", times[j]), LAMBDA g :
         IF ~g.r.ok THEN Res(g.m, Thrown)
         ELSE PositionsOfTimes(g.m, times, j + 1, Append(positions, g.r.v)))

\* CurveInterpolator.lookupPositions(v, axis, max, margin); the result
\* carries, next to the positions, the times they were mapped from
lookupPositions(w, v, axis, max, margin) ==
  With(PositionSegments(w.m, v, axis, max, margin, 0, <<>>), LAMBDA l :
    IF ~l.r.ok THEN WRes([w EXCEPT !.m = l.m], Thrown)
    ELSE With(PositionsOfTimes(l.m, l.r.v, 1, <<>>), LAMBDA u :
           IF ~u.r.ok THEN WRes([w EXCEPT !.m = u.m], Thrown)
           ELSE WRes([w EXCEPT !.m = u.m],
                     [v |-> u.r.v, ok |-> TRUE, times |-> l.r.v])))

\* new CurveInterpolator(points, {tension, alpha, closed}): the world after
\* the constructor, which throws on fewer than 2 points; no lmargin option
\* is given, so that _lmargin is 1 - curveMapper.tension
NewCurveInterpolator(pts, optTension, optAlpha, optClosed) ==
  LET w0 == [m |-> NewMapper, ic |-> EmptyFacadeCache, lmargin |-> UNDEFINED,
             fired |-> 0, read |-> {}]
      w1 == setAlpha(w0, "numerical", "facade", optAlpha).w
      w2 == setTension(w1, "numerical", "facade", optTension).w
      w3 == setClosed(w2, "numerical", "facade", optClosed).w
      LMargin(s) == [s EXCEPT !.w.lmargin = RSub(One, s.w.m.tension)]
  IN  LMargin(setPoints(w3, "numerical", "facade", pts))

(***************************************************************************)
(* Inputs                                                                  *)
(***************************************************************************)
\* control points on one line, so that every length is rational
PA == <<I(0), I(0)>>
PB == <<I(1), I(0)>>
\* a control point off that line, for the segment and control point functions
PC == <<I(0), I(2)>>

RECURSIVE SeqsOfLen(_, _)
SeqsOfLen(S, n) ==
  IF n = 0 THEN {<<>>}
  ELSE {Append(q, x) : q \in SeqsOfLen(S, n - 1), x \in S}

\* the point lists the setter accepts (a curve may start anywhere: the lists
\* start at PA), and some it rejects
ValidPoints ==
  {p \in UNION {SeqsOfLen({PA, PB}, n) : n \in 2..MaxPoints} : p[1] = PA}
InvalidPoints == {UNDEFINED, <<PA>>}
\* the point lists of the mappers whose reads are explored: those, and two
\* curves of two segments, one of them with a segment of length zero
MapPoints == ValidPoints \cup {<<PA, PB, PA>>, <<PA, PA, PB>>}
Tensions == {Zero, Half}
Alphas == {Zero, One}
NonFinite == {NaN}
\* curve times t and positions u
Times == {Zero, Q(1, 4), Half, One}
\* the position the life cycle reads at, to fill the caches
Probes == {Q(1, 4)}
Indices == 0..(MaxPoints - 1)
Kinds == {"linear", "numerical"}
SetterNames == {"setAlpha", "setTension", "setPoints", "setClosed"}

(***************************************************************************)
(* State                                                                   *)
(***************************************************************************)
VARIABLES
  kind,      \* "linear" or "numerical": the class of the mapper
  cb,        \* the callback given to the constructor
  points, tension, alpha, closed, cache,   \* the fields of the mapper
  icache,    \* CurveInterpolator._cache
  lmargin,   \* CurveInterpolator._lmargin
  op, arg, ret,   \* the last call, its argument and its outcome
  changed,   \* the last call was a setter that took its assigning branch
  fired,     \* invocations of the callback during the last call
  cbRead,    \* segment indices the callback read during the last call
  hadCache,  \* the caches of the mapper and of the facade held an entry
             \* when the last call, a setter, began
  used       \* arc length table indices and segment indices getT/getU used

vars == <<kind, cb, points, tension, alpha, closed, cache, icache, lmargin,
          op, arg, ret, changed, fired, cbRead, hadCache, used>>

\* the mapper object of the current state
Self == [points |-> points, tension |-> tension, alpha |-> alpha,
         closed |-> closed, cache |-> cache]
\* the mapper with its owner, as a call finds them
World == [m |-> Self, ic |-> icache, lmargin |-> lmargin, fired |-> 0, read |-> {}]

NoEntry(map) == DOMAIN map = {}
\* no coefficient entry, no arc length table and no inverse samples
CacheIsEmpty(c) ==
  NoEntry(c.coef) /\ c.arcLengths = UNDEFINED /\ NoEntry(c.samples)
NothingUsed == [reads |-> {}, segs |-> {}]
NoCache == [mapper |-> FALSE, facade |-> FALSE]

SetMapper(m) ==
  /\ points' = m.points
  /\ tension' = m.tension
  /\ alpha' = m.alpha
  /\ closed' = m.closed
  /\ cache' = m.cache

\* a setter call with the argument a and the outcome s
Setter(name, a, s) ==
  /\ SetMapper(s.w.m)
  /\ icache' = s.w.ic
  /\ op' = name
  /\ arg' = a
  /\ ret' = s.r
  /\ changed' = s.changed
  /\ fired' = s.w.fired
  /\ cbRead' = s.w.read
  /\ hadCache' = [mapper |-> ~CacheIsEmpty(cache), facade |-> icache # EmptyFacadeCache]
  /\ used' = NothingUsed
  /\ UNCHANGED <<kind, cb, lmargin>>

\* a read of the mapper with the argument a, the mapper m afterwards, the
\* outcome r and the indices u it used
Read(name, a, g, u) ==
  /\ SetMapper(g.m)
  /\ op' = name
  /\ arg' = a
  /\ ret' = g.r
  /\ changed' = FALSE
  /\ fired' = 0
  /\ cbRead' = {}
  /\ hadCache' = NoCache
  /\ used' = u
  /\ UNCHANGED <<kind, cb, icache, lmargin>>

\* a getT or getU call with the argument a and the outcome g, which carries
\* the indices the call used
ReadUsing(name, a, g) == Read(name, a, g, [reads |-> g.reads, segs |-> g.segs])

\* a call of the facade with the argument a and the outcome s
FacadeCall(name, a, s) ==
  /\ SetMapper(s.w.m)
  /\ icache' = s.w.ic
  /\ op' = name
  /\ arg' = a
  /\ ret' = s.r
  /\ changed' = FALSE
  /\ fired' = 0
  /\ cbRead' = {}
  /\ hadCache' = NoCache
  /\ used' = NothingUsed
  /\ UNCHANGED <<kind, cb, lmargin>>

NoCall ==
  /\ op = "new"
  /\ arg = UNDEFINED
  /\ ret = Ok(UNDEFINED)
  /\ changed = FALSE
  /\ fired = 0
  /\ cbRead = {}
  /\ hadCache = NoCache
  /\ used = NothingUsed

\* the state a constructed CurveInterpolator s.w is in
Constructed(s) ==
  /\ kind = "numerical"
  /\ cb = "facade"
  /\ points = s.w.m.points
  /\ tension = s.w.m.tension
  /\ alpha = s.w.m.alpha
  /\ closed = s.w.m.closed
  /\ cache = s.w.m.cache
  /\ icache = s.w.ic
  /\ lmargin = s.w.lmargin
  /\ NoCall

(***************************************************************************)
(* Spec: the life cycle of a mapper.  new LinearCurveMapper(cb) or         *)
(* new NumericalCurveMapper(cb), then any sequence of assignments to       *)
(* alpha, tension, points and closed and of reads.                         *)
(***************************************************************************)
Init ==
  /\ kind \in Kinds
  /\ cb \in {"none", "reader"}
  /\ points = NewMapper.points
  /\ tension = NewMapper.tension
  /\ alpha = NewMapper.alpha
  /\ closed = NewMapper.closed
  /\ cache = NewMapper.cache
  /\ icache = EmptyFacadeCache
  /\ lmargin = UNDEFINED
  /\ NoCall

SetAlpha ==
  \E a \in Alphas \cup NonFinite : Setter("setAlpha", a, setAlpha(World, kind, cb, a))

SetTension ==
  \E t \in Tensions \cup NonFinite :
    Setter("setTension", t, setTension(World, kind, cb, t))

SetPoints ==
  \E pts \in ValidPoints \cup InvalidPoints :
    Setter("setPoints", pts, setPoints(World, kind, cb, pts))

SetClosed ==
  \E c \in BOOLEAN : Setter("setClosed", c, setClosed(World, kind, cb, c))

GetCoefficients ==
  \E idx \in Indices :
    Read("getCoefficients", idx, getCoefficients(Self, idx), NothingUsed)

\* getT(u) for a position u of the set S
GetT(S) ==
  \E u \in S : ReadUsing("getT", u, getT(Self, kind, u))

Next ==
  \/ SetAlpha
  \/ SetTension
  \/ SetPoints
  \/ SetClosed
  \/ GetCoefficients
  \/ GetT(Probes)

Spec == Init /\ [][Next]_vars

(***************************************************************************)
(* SpecMap: the reads of a mapper that holds points.  The mapper is any    *)
(* mapper the setters can configure; its reads follow in any order.        *)
(***************************************************************************)
InitMap ==
  /\ kind \in Kinds
  /\ cb = "none"
  /\ points \in MapPoints
  /\ tension \in Tensions
  /\ alpha \in Alphas
  /\ closed \in BOOLEAN
  /\ cache = EmptyCache
  /\ icache = EmptyFacadeCache
  /\ lmargin = UNDEFINED
  /\ NoCall

GetPointAtT ==
  \E t \in Times : Read("getPointAtT", t, getPointAtT(Self, t), NothingUsed)

LengthAt ==
  \E u \in Times : Read("lengthAt", u, lengthAt(Self, kind, u), NothingUsed)

GetU ==
  \E t \in Times : ReadUsing("getU", t, getU(Self, kind, t))

NextMap ==
  \/ GetPointAtT
  \/ LengthAt
  \/ GetT(Times)
  \/ GetU

SpecMap == InitMap /\ [][NextMap]_vars

(***************************************************************************)
(* SpecTrip: the round trip of a position.  On a mapper that holds points, *)
(* getT(u) for a position u, then getU of the time that getT returned.     *)
(***************************************************************************)
\* getU(t) for the time t that the getT call before it returned
GetUOfT ==
  /\ op = "getT"
  /\ ret.ok
  /\ IsFinite(ret.v)
  /\ ReadUsing("getU", ret.v, getU(Self, kind, ret.v))

NextTrip ==
  \/ GetT(Times)
  \/ GetUOfT

\* the mapper is any mapper the setters can configure
InitTrip ==
  /\ kind \in Kinds
  /\ cb = "none"
  /\ points \in ValidPoints
  /\ tension \in Tensions
  /\ alpha \in Alphas
  /\ closed \in BOOLEAN
  /\ cache = EmptyCache
  /\ icache = EmptyFacadeCache
  /\ lmargin = UNDEFINED
  /\ NoCall

SpecTrip == InitTrip /\ [][NextTrip]_vars

(***************************************************************************)
(* SpecCI: a CurveInterpolator over its default mapper.  new               *)
(* CurveInterpolator(points, options), then assignments through the facade *)
(* and calls of getBoundingBox and createLookupTable.                      *)
(***************************************************************************)
InitCI ==
  \E pts \in ValidPoints, t \in Tensions, a \in Alphas, c \in BOOLEAN :
    Constructed(NewCurveInterpolator(pts, t, a, c))

\* the ranges <<from, to>> a bounding box is asked for
Ranges == {<<Zero, One>>, <<One, One>>}

GetBoundingBox ==
  \E r \in Ranges :
    FacadeCall("getBoundingBox", r, getBoundingBox(World, r[1], r[2]))

\* the sample counts a lookup table is asked for: one too few, and the least
SampleCounts == {1, 2}

CreateLookupTable ==
  \E samples \in SampleCounts :
    FacadeCall("createLookupTable", samples,
               createLookupTable(World, samples, Zero, One))

NextCI ==
  \/ SetAlpha
  \/ SetTension
  \/ SetPoints
  \/ SetClosed
  \/ GetBoundingBox
  \/ CreateLookupTable

SpecCI == InitCI /\ [][NextCI]_vars

(***************************************************************************)
(* SpecLookup: lookups on a CurveInterpolator.  new CurveInterpolator(     *)
(* points, options) without an lmargin option, then assignments to tension *)
(* and calls of lookup without a margin argument.                          *)
(***************************************************************************)
\* a third point to the right of PA and PB
PD == <<I(2), I(1)>>
\* a curve whose first axis grows from point to point, and one that turns back
LookupPoints == {<<PA, PB, PD>>, <<PA, PB, PA>>}
LookupTensions == {Zero, One}
LookupValues == {Q(-1, 16), Zero, Half, One, I(2)}
Axes == {0}
MaxCounts == {-2, -1, 0, 1}

InitLookup ==
  \E pts \in LookupPoints, t \in LookupTensions, c \in BOOLEAN :
    Constructed(NewCurveInterpolator(pts, t, Zero, c))

\* lookup(v, axis, max): the margin is the default of the parameter,
\* this._lmargin
Lookup ==
  \E v \in LookupValues, axis \in Axes, max \in MaxCounts :
    \E s \in {lookup(World, v, axis, max, lmargin)} :
      FacadeCall("lookup", <<v, axis, max, lmargin>>, s)

\* interpolator.tension = t, for the tensions whose coefficients stay small
SetLookupTension ==
  \E t \in LookupTensions :
    Setter("setTension", t, setTension(World, kind, cb, t))

NextLookup ==
  \/ SetLookupTension
  \/ Lookup

SpecLookup == InitLookup /\ [][NextLookup]_vars

(***************************************************************************)
(* SpecAtT: getPointAtT and getTangentAtT of a mapper that holds points,   *)
(* at curve times inside and outside of [0,1].                             *)
(***************************************************************************)
\* curve times below 0 and above 1
OutTimes == {Q(-1, 2), Q(3, 2), I(2)}

GetPointAtTAny ==
  \E t \in Times \cup OutTimes :
    Read("getPointAtT", t, getPointAtT(Self, t), NothingUsed)

GetTangentAtT ==
  \E t \in Times \cup OutTimes :
    Read("getTangentAtT", t, getTangentAtT(Self, t), NothingUsed)

NextAtT ==
  \/ GetPointAtTAny
  \/ GetTangentAtT

SpecAtT == InitMap /\ [][NextAtT]_vars

(***************************************************************************)
(* SpecOwn: a mapper and the caller that owns its points.  The calls of    *)
(* the mapper in any order; the result of getPointAtT carries the object   *)
(* it was returned in, and the caller may write into that object.          *)
(***************************************************************************)
\* the point arrays of the caller: a curve of one segment and one of two
OwnPoints == {<<PA, PB>>, <<PA, PB, PA>>}

InitOwn ==
  /\ kind \in Kinds
  /\ cb = "none"
  /\ points \in OwnPoints
  /\ tension \in Tensions
  /\ alpha \in Alphas
  /\ closed \in BOOLEAN
  /\ cache = EmptyCache
  /\ icache = EmptyFacadeCache
  /\ lmargin = UNDEFINED
  /\ NoCall

\* getPointAtT(t), no target given
GetPointAtTObject ==
  \E t \in Times :
    With(getPointAtT(Self, t), LAMBDA g :
      Read("getPointAtT", t,
           Res(g.m, IF g.r.ok
                    THEN [v |-> g.r.v, ok |-> TRUE,
                          object |-> getPointAtTObject(Self, t)]
                    ELSE g.r),
           NothingUsed))

\* the value the caller writes
Written == I(7)

\* result[0] = 7 on the vector getPointAtT returned: a write into the
\* caller's points when that vector is one of them
CallerWrites ==
  /\ op = "getPointAtT"
  /\ ret.ok
  /\ points' = IF ret.object = "new Array" THEN points
               ELSE [points EXCEPT ![ret.object[2]][1] = Written]
  /\ op' = "write"
  /\ arg' = <<arg, Written>>
  /\ ret' = Ok(UNDEFINED)
  /\ UNCHANGED <<kind, cb, tension, alpha, closed, cache, icache, lmargin,
                 changed, fired, cbRead, hadCache, used>>

NextOwn ==
  \/ SetAlpha
  \/ SetTension
  \/ SetClosed
  \/ GetCoefficients
  \/ GetPointAtTObject
  \/ GetTangentAtT
  \/ LengthAt
  \/ GetT(Probes)
  \/ GetU
  \/ CallerWrites

SpecOwn == InitOwn /\ [][NextOwn]_vars

(***************************************************************************)
(* SpecBox: bounding boxes of a CurveInterpolator whose curve leaves the   *)
(* hull of its control points.  new CurveInterpolator(points, options),    *)
(* then assignments to tension and closed and calls of getBoundingBox.     *)
(***************************************************************************)
\* with tension 0 the second axis of the first segment of <<PA, PB, PC>> is
\* t^3 - t^2, which falls below every control point
BoxPoints == {<<PA, PB, PC>>, <<PA, PB, PA>>}
BoxTensions == {Zero, Half, One}

InitBox ==
  \E pts \in BoxPoints, t \in BoxTensions, c \in BOOLEAN :
    Constructed(NewCurveInterpolator(pts, t, Zero, c))

\* interpolator.tension = t, for the tensions of the documented range
SetBoxTension ==
  \E t \in BoxTensions :
    Setter("setTension", t, setTension(World, kind, cb, t))

NextBox ==
  \/ SetBoxTension
  \/ SetClosed
  \/ GetBoundingBox

SpecBox == InitBox /\ [][NextBox]_vars

(***************************************************************************)
(* SpecSeg: the segment functions.  The state holds four control points    *)
(* <<p0, p1, p2, p3>>, a tension and an alpha; calculateCoefficients is    *)
(* applied to them and the coefficients are evaluated at times t.          *)
(***************************************************************************)
SegPoints == {PA, PB, PC}
SegTensions == {Zero, Half, One, NaN}
SegAlphas == {Zero, Half, One, NaN}

InitSeg ==
  /\ kind = "numerical"
  /\ cb = "none"
  /\ points \in SeqsOfLen(SegPoints, 4)
  /\ tension \in SegTensions
  /\ alpha \in SegAlphas
  /\ closed = FALSE
  /\ cache = EmptyCache
  /\ icache = EmptyFacadeCache
  /\ lmargin = UNDEFINED
  /\ NoCall

Pure(name, a, r) ==
  /\ op' = name
  /\ arg' = a
  /\ ret' = r
  /\ UNCHANGED <<kind, cb, points, tension, alpha, closed, cache, icache, lmargin,
                 changed, fired, cbRead, hadCache, used>>

CalculateCoefficients ==
  /\ op = "new"
  /\ Pure("calculateCoefficients", UNDEFINED,
          Ok(calculateCoefficients(points[1], points[2], points[3], points[4],
                                   tension, alpha)))

\* evaluateForT(valueAtT, t, coefficients) on the coefficients calculated
EvaluateForT ==
  /\ op # "new"
  /\ \E t \in Times :
       LET coefficients == IF op = "calculateCoefficients" THEN ret.v ELSE arg[2]
       IN  Pure("evaluateForT", <<t, coefficients>>,
                Ok(evaluateForT("valueAtT", t, coefficients)))

NextSeg ==
  \/ CalculateCoefficients
  \/ EvaluateForT

SpecSeg == InitSeg /\ [][NextSeg]_vars

(***************************************************************************)
(* SpecRoots: findRootsOfT.  The state holds nothing but the last call;    *)
(* findRootsOfT is applied to a target value and to the coefficients of    *)
(* one axis.                                                               *)
(***************************************************************************)
RootCoefficients == {I(-2), I(-1), Zero, One}
RootTargets == {Zero, One}

InitRoots ==
  /\ kind = "numerical"
  /\ cb = "none"
  /\ points = UNDEFINED
  /\ tension = NewMapper.tension
  /\ alpha = NewMapper.alpha
  /\ closed = FALSE
  /\ cache = EmptyCache
  /\ icache = EmptyFacadeCache
  /\ lmargin = UNDEFINED
  /\ NoCall

FindRootsOfT ==
  \E target \in RootTargets, coefficients \in SeqsOfLen(RootCoefficients, 4) :
    Pure("findRootsOfT", <<target, coefficients>>,
         Ok(findRootsOfT(target, coefficients)))

NextRoots ==
  \/ FindRootsOfT

SpecRoots == InitRoots /\ [][NextRoots]_vars

(***************************************************************************)
(* SpecCP: the control point selector.  The state holds a list of points   *)
(* and the closed flag; getControlPoints is applied to segment indices.    *)
(***************************************************************************)
InitCP ==
  /\ kind = "numerical"
  /\ cb = "none"
  /\ points \in UNION {SeqsOfLen(SegPoints, n) : n \in 2..MaxCurve}
  /\ tension = NewMapper.tension
  /\ alpha = NewMapper.alpha
  /\ closed \in BOOLEAN
  /\ cache = EmptyCache
  /\ icache = EmptyFacadeCache
  /\ lmargin = UNDEFINED
  /\ NoCall

GetControlPoints ==
  \E idx \in 0..(MaxCurve - 1) :
    Pure("getControlPoints", idx, getControlPoints(idx, points, closed))

NextCP ==
  \/ GetControlPoints

SpecCP == InitCP /\ [][NextCP]_vars

(***************************************************************************)
(* Properties                                                              *)
(***************************************************************************)
\* the last call was a setter that assigned its field
SetterChanged == op \in SetterNames /\ changed

\* a newly created mapper holding the current points, tension, alpha and
\* closed: the mapper of the state, with nothing cached
FreshMapper == [Self EXCEPT !.cache = EmptyCache]

\* C1: whenever a setter has changed points, tension, alpha or closed, the
\* cache of the mapper holds, as the setter returns, no coefficient entry, no
\* arc length table and no inverse samples.
C1_CacheEmptyAfterSetter == SetterChanged => CacheIsEmpty(cache)

\* C2: in every state of a mapper that holds points, each of getCoefficients,
\* getPointAtT, lengthAt, getT and getU returns what it returns on a newly
\* created mapper with the current points, tension, alpha and closed.
C2_ReadsEqualFreshMapper ==
  points # UNDEFINED =>
    /\ \A i \in Indices : getCoefficients(Self, i).r = getCoefficients(FreshMapper, i).r
    /\ \A t \in Times :
         /\ getPointAtT(Self, t).r = getPointAtT(FreshMapper, t).r
         /\ lengthAt(Self, kind, t).r = lengthAt(FreshMapper, kind, t).r
         /\ getT(Self, kind, t).r = getT(FreshMapper, kind, t).r
         /\ getU(Self, kind, t).r = getU(FreshMapper, kind, t).r

\* C3, as the code has it: a setter call that changes points, tension, alpha
\* or closed on a mapper that was given a callback invokes the callback
\* exactly once before it returns when the mapper holds points, and not at
\* all when no points have been assigned yet.
C3_CallbackOncePerInvalidation ==
  (SetterChanged /\ cb # "none") => fired = (IF points = UNDEFINED THEN 0 ELSE 1)

\* C3, as the specification has it: every setter call that changes a
\* parameter invokes the callback exactly once.
C3_CallbackOncePerChange == (SetterChanged /\ cb # "none") => fired = 1

C3_Witness ==
  /\ op = "setTension"
  /\ changed
  /\ cb = "reader"
  /\ hadCache.mapper
  /\ fired = 1

\* C4: an assignment to points of a missing value or of fewer than 2 points
\* throws, leaves the points, the parameters and the caches as they were and
\* does not invoke the callback.
C4_InvalidPointsRejected ==
  [][(op' = "setPoints" /\ (arg' = UNDEFINED \/ Len(arg') < 2))
       => /\ ~ret'.ok
          /\ UNCHANGED <<points, tension, alpha, closed, cache, icache>>
          /\ fired' = 0]_vars

C4_Witness ==
  /\ op = "setPoints"
  /\ Len(arg) = 1
  /\ ~ret.ok
  /\ cb = "reader"
  /\ points # UNDEFINED
  /\ hadCache.mapper
  /\ ~CacheIsEmpty(cache)

\* the interpolator of the state, with nothing cached in it or in its mapper
FreshInterpolator == [World EXCEPT !.ic = EmptyFacadeCache, !.m.cache = EmptyCache]

\* C5: after a change of points, tension, alpha or closed made through the
\* interpolator, the interpolator holds no bounding box and no lookup table;
\* a bounding box or lookup table it holds is the one computed from the
\* current curve.
C5_FacadeCacheFollowsCurve ==
  /\ SetterChanged => (icache.bbox = UNDEFINED /\ NoEntry(icache.lut))
  /\ icache.bbox # UNDEFINED =>
       icache.bbox = getBoundingBox(FreshInterpolator, Zero, One).r.v
  /\ \A key \in DOMAIN icache.lut :
       icache.lut[key] =
         createLookupTable(FreshInterpolator, key[1], key[2], key[3]).r.v

C5_Witness ==
  /\ SetterChanged
  /\ cb = "facade"
  /\ hadCache.facade
  /\ fired = 1
  /\ icache = EmptyFacadeCache

\* C6: on a mapper that holds points, getPointAtT(0) is the first control
\* point, and getPointAtT(1) is the last control point of an open curve and
\* the first control point of a closed one, whatever tension and alpha are.
C6_EndpointIdentity ==
  (op = "getPointAtT" /\ points # UNDEFINED) =>
    /\ arg = Zero => ret = Ok(points[1])
    /\ arg = One => ret = Ok(IF closed THEN points[1] ELSE points[Len(points)])

C6_Witness ==
  /\ op = "getPointAtT"
  /\ arg = One
  /\ closed
  /\ points[1] # points[Len(points)]
  /\ ret = Ok(points[1])

\* C7: for any four control points, tension and alpha, the coefficients of
\* calculateCoefficients evaluate to p1 at t = 0 and to p2 at t = 1 on
\* every axis.
C7_SegmentInterpolates ==
  op = "evaluateForT" =>
    /\ arg[1] = Zero => ret.v = points[2]
    /\ arg[1] = One => ret.v = points[3]

C7_Witness ==
  /\ op = "evaluateForT"
  /\ arg[1] = One
  /\ alpha = Half
  /\ tension = Zero
  /\ points[1] = points[2]
  /\ points[2] # points[3]
  /\ ret.v = points[3]

\* the point 2 a - b
Mirror(a, b) == [k \in 1..Len(a) |-> RSub(RAdd(a[k], a[k]), b[k])]

\* C8: on an open curve of n >= 2 points, getControlPoints of a segment i in
\* 0..n-2 returns four defined points: p1 = points[i], p2 = points[i+1], p0 =
\* points[i-1] or for i = 0 the phantom 2 p1 - p2, p3 = points[i+2] or for
\* i = n-2 the phantom 2 p2 - p1.
C8_OpenControlPoints ==
  (op = "getControlPoints" /\ ~closed /\ arg \in 0..(Len(points) - 2)) =>
    /\ ret.ok
    /\ \A k \in 1..4 : ret.v[k] # UNDEFINED
    /\ ret.v[2] = points[arg + 1]
    /\ ret.v[3] = points[arg + 2]
    /\ ret.v[1] = (IF arg > 0 THEN points[arg] ELSE Mirror(ret.v[2], ret.v[3]))
    /\ ret.v[4] = (IF arg < Len(points) - 2 THEN points[arg + 3]
                   ELSE Mirror(ret.v[3], ret.v[2]))

C8_Witness ==
  /\ op = "getControlPoints"
  /\ ~closed
  /\ Len(points) = 2
  /\ arg = 0
  /\ points[1] # points[2]
  /\ ret.ok
  /\ ret.v[1] = Mirror(points[1], points[2])
  /\ ret.v[4] = Mirror(points[2], points[1])

\* C9: a closed curve of n >= 2 points has n segments, and getControlPoints
\* of a segment i in 0..n-1 returns p0 = points[(i-1) mod n], p1 = points[i],
\* p2 = points[(i+1) mod n] and p3 = points[(i+2) mod n].
C9_ClosedControlPoints ==
  closed =>
    /\ SegmentCount(points, closed) = Len(points)
    /\ (op = "getControlPoints" /\ arg \in 0..(Len(points) - 1)) =>
         /\ ret.ok
         /\ ret.v[1] = points[((arg - 1) % Len(points)) + 1]
         /\ ret.v[2] = points[arg + 1]
         /\ ret.v[3] = points[((arg + 1) % Len(points)) + 1]
         /\ ret.v[4] = points[((arg + 2) % Len(points)) + 1]

C9_Witness ==
  /\ op = "getControlPoints"
  /\ closed
  /\ Len(points) = 3
  /\ arg = 0
  /\ points[3] # points[1]
  /\ ret.ok
  /\ ret.v[1] = points[3]

\* C10: on a mapper of either strategy that holds points, getT(u) and getU(t)
\* for u and t in [0,1] return without an error, read only entries of the arc
\* length table and segment indices that exist, and return a number in [0,1].
C10_MappingTotalInRange ==
  (op \in {"getT", "getU"} /\ points # UNDEFINED) =>
    /\ ret.ok
    /\ used.reads \subseteq 0..(Len(cache.arcLengths) - 1)
    /\ used.segs \subseteq 0..(SegmentCount(points, closed) - 1)
    /\ RGe(ret.v, Zero)
    /\ RLe(ret.v, One)

\* C11: on a mapper of either strategy that holds points, getT(0) = 0,
\* getT(1) = 1, getU(0) = 0 and getU(1) = 1.
C11_MappingEndpoints ==
  (op \in {"getT", "getU"} /\ points # UNDEFINED /\ arg \in {Zero, One}) =>
    ret = Ok(arg)

\* |x - y|
AbsDiff(x, y) == IF RGe(x, y) THEN RSub(x, y) ELSE RSub(y, x)

\* the round trip error that tables of SubDivisions + 1 arc lengths and of
\* NSamples inverse samples allow: the tolerance of both strategies at the
\* table sizes explored
TripTolerance == Q(1, 8)

\* C12: for every position u in [0,1], getU of the time getT(u) returned is a
\* number within the tolerance of u.
C12_RoundTrip ==
  [][(op = "getT" /\ op' = "getU") =>
       (ret'.ok /\ RLe(AbsDiff(ret'.v, arg), TripTolerance))]_vars

\* C13: on a mapper that holds points, lengthAt(u) does not decrease as u
\* grows over [0,1], lengthAt(0) = 0 and lengthAt(1) is the total length, the
\* last entry of the arc length table.
C13_LengthMonotonic ==
  (op = "lengthAt" /\ points # UNDEFINED) =>
    /\ ret.ok
    /\ arg = Zero => ret.v = Zero
    /\ arg = One => ret.v = NumAt(cache.arcLengths, Len(cache.arcLengths) - 1)
    /\ \A u \in Times : RLe(arg, u) => RLe(ret.v, lengthAt(Self, kind, u).r.v)

C13_Witness ==
  /\ op = "lengthAt"
  /\ arg = Half
  /\ kind = "linear"
  /\ RGt(ret.v, Zero)
  /\ RLt(ret.v, lengthAt(Self, kind, One).r.v)

\* the number of entries an arc length table has: subdivisions + 1 in the
\* segmented (linear) mapper, segment count + 1 in the numerical mapper
TableLength ==
  IF kind = "linear" THEN SubDivisions + 1 ELSE SegmentCount(points, closed) + 1

\* C14: an arc length table the mapper holds starts with 0, does not
\* decrease, and has subdivisions + 1 entries in the segmented mapper and
\* segment count + 1 entries in the numerical mapper, the segment count being
\* the number of points of a closed curve and one less of an open curve.
C14_ArcLengthTable ==
  cache.arcLengths # UNDEFINED =>
    /\ Len(cache.arcLengths) = TableLength
    /\ cache.arcLengths[1] = Zero
    /\ \A i \in 1..(Len(cache.arcLengths) - 1) :
         RLe(cache.arcLengths[i], cache.arcLengths[i + 1])

C14_Witness ==
  /\ kind = "numerical"
  /\ closed
  /\ cache.arcLengths # UNDEFINED
  /\ Len(cache.arcLengths) = Len(points) + 1
  /\ RGt(cache.arcLengths[Len(points) + 1], cache.arcLengths[2])

(***************************************************************************)
(* lookup, SpecLookup                                                      *)
(***************************************************************************)
\* the solutions a lookup returned, as a list: lookup returns the solution
\* itself instead of a list of one when max is 1 or -1
Solutions(r) == IF r.vector THEN <<r.v>> ELSE r.v

\* the solutions lookup returns for the value, axis and margin of the last
\* call when it is called with max = 0
AllSolutions == Solutions(lookup(World, arg[1], arg[2], 0, arg[4]).r)

FirstOf(all, n) == SubSeq(all, 1, IF n < Len(all) THEN n ELSE Len(all))
LastReversed(all, n) ==
  [i \in 1..(IF n < Len(all) THEN n ELSE Len(all)) |-> all[Len(all) + 1 - i]]

\* C15: with k the number of solutions lookup returns with max = 0, a lookup
\* with max > 0 returns the first min(max, k) of them in curve order, a
\* lookup with max < 0 returns the last min(|max|, k) of them in reverse
\* curve order, and neither returns more than |max| solutions
C15_LookupMax ==
  (op = "lookup" /\ arg[3] # 0) =>
    /\ ret.ok
    /\ Len(Solutions(ret)) <= Abs(arg[3])
    /\ arg[3] > 0 => Solutions(ret) = FirstOf(AllSolutions, arg[3])
    /\ arg[3] < 0 => Solutions(ret) = LastReversed(AllSolutions, -arg[3])

\* the derivative of the axis with these coefficients is not negative on
\* [0,1]: it is not negative at 0, at 1 and at its vertex when the vertex
\* lies between them
Grows(coefficients) ==
  /\ RGe(derivativeAtT(Zero, coefficients), Zero)
  /\ RGe(derivativeAtT(One, coefficients), Zero)
  /\ coefficients[1] # Zero =>
       With(RDiv(RNeg(coefficients[2]), RMul(I(3), coefficients[1])), LAMBDA t :
         (RGt(t, Zero) /\ RLt(t, One)) => RGe(derivativeAtT(t, coefficients), Zero))

\* the curve is monotonic along the axis k: the axis grows on every segment
\* or falls on every segment
Monotonic(k) ==
  \/ \A idx \in 0..(SegmentCount(points, closed) - 1) :
       Grows(getCoefficients(Self, idx).r.v[k + 1])
  \/ \A idx \in 0..(SegmentCount(points, closed) - 1) :
       Grows([c \in 1..4 |-> RNeg(getCoefficients(Self, idx).r.v[k + 1][c])])

\* v lies between the values of the first and the last control point on axis k
Attained(v, k) ==
  With(points[1][k + 1], LAMBDA first :
  With(points[Len(points)][k + 1], LAMBDA last :
    \/ RLe(first, v) /\ RLe(v, last)
    \/ RLe(last, v) /\ RLe(v, first)))

\* C16: on a curve that is monotonic along the axis, for a value between
\* the axis values of the first and the last control point, lookup(v, axis, 1)
\* and lookup(v, axis, -1) return the same single point
C16_LookupSymmetry ==
  (/\ op = "lookup"
   /\ arg[3] \in {1, -1}
   /\ Monotonic(arg[2])
   /\ Attained(arg[1], arg[2])) =>
    /\ ret.ok
    /\ ret.vector
    /\ lookup(World, arg[1], arg[2], -arg[3], arg[4]).r = ret

\* C17: a lookup called without a margin argument applies the margin
\* 1 - tension, for the tension the curve has when lookup is called
C17_DefaultMargin ==
  op = "lookup" => arg[4] = RSub(One, tension)

(***************************************************************************)
(* getBoundingBox, SpecBox                                                 *)
(***************************************************************************)
\* the point p lies inside the box, axis by axis
Inside(p, box) ==
  \A c \in 1..Len(p) : RLe(box[c][1], p[c]) /\ RLe(p[c], box[c][2])

\* the curve times at which the curve is compared with its box: getPointAt(u)
\* is getPointAtTime(getTime(u)), and getTime(u) is a time of [0,1]
BoxTimes == {Q(i, 8) : i \in 0..8} \cup {Q(1, 3), Q(2, 3)}

\* C18: the curve point at every position u of [0,1] lies inside the box
\* that getBoundingBox(0, 1) reports, on every axis, and so does every
\* control point
C18_BoxContainsCurve ==
  (op = "getBoundingBox" /\ arg = <<Zero, One>>) =>
    /\ ret.ok
    /\ \A u \in {Zero, One} : Inside(getPointAt(Self, u).r.v, ret.v)
    /\ \A t \in BoxTimes : Inside(getPointAtTime(Self, t).r.v, ret.v)
    /\ \A i \in 1..Len(points) : Inside(points[i], ret.v)

\* the box reaches below every control point: the curve has an extremum
\* inside a segment
C18_Witness ==
  /\ op = "getBoundingBox"
  /\ arg = <<Zero, One>>
  /\ ret.ok
  /\ \A i \in 1..Len(points) : RLt(ret.v[2][1], points[i][2])
  /\ \E t \in BoxTimes : getPointAtTime(Self, t).r.v[2] = ret.v[2][1]

(***************************************************************************)
(* getPointAtT and getTangentAtT outside of [0,1], SpecAtT                 *)
(***************************************************************************)
\* what the call op returns at the curve time t
AtT(t) ==
  IF op = "getPointAtT" THEN getPointAtT(Self, t).r ELSE getTangentAtT(Self, t).r

\* the bound of [0,1] nearest to t
NearestBound(t) == IF RLt(t, Zero) THEN Zero ELSE One

OutOfRange(t) == RLt(t, Zero) \/ RGt(t, One)

\* C19: for t outside [0,1], getPointAtT(t) and getTangentAtT(t) do not
\* return what they return at the nearest bound of [0,1]: the mapper does
\* not clamp t
C19_NoClamping ==
  (op \in {"getPointAtT", "getTangentAtT"} /\ OutOfRange(arg)) =>
    ret # AtT(NearestBound(arg))

\* C19, as the code has it: for t outside [0,1], getPointAtT(t) and
\* getTangentAtT(t) return what they return at the nearest bound of [0,1];
\* getPointAtT returns the control point of the endpoint shortcut
C19_Clamps ==
  (op \in {"getPointAtT", "getTangentAtT"} /\ OutOfRange(arg)) =>
    /\ ret.ok
    /\ ret = AtT(NearestBound(arg))
    /\ op = "getPointAtT" =>
         ret.v = IF RLt(arg, Zero) \/ closed THEN points[1] ELSE points[Len(points)]

\* a tangent asked for above 1 that is the tangent at 1 and not the tangent
\* the segment functions have at the time given
C19_Witness ==
  /\ op = "getTangentAtT"
  /\ RGt(arg, One)
  /\ ret.ok
  /\ ret.v # <<Zero, Zero>>
  /\ ret # getTangentAtTAsGiven(Self, arg).r

(***************************************************************************)
(* calculateCoefficients on coincident points, SpecSeg                     *)
(***************************************************************************)
\* the knot sequence calculateCoefficients uses for the points of the state
Knots == calcKnotSequence(points[1], points[2], points[3], points[4], alpha)

\* the velocity terms of axis k in the coefficients returned: c is u, and
\* a is 2 v1 - 2 v2 + u + v
TermU(k) == ret.v[k][3]
TermV(k) ==
  RSub(RSub(ret.v[k][1], TermU(k)),
       RSub(RMul(I(2), points[2][k]), RMul(I(2), points[3][k])))

\* C20: for four control points with finite coordinates, coincident
\* adjacent points included, and alpha > 0, every coefficient that
\* calculateCoefficients returns is finite, and a velocity term is 0 when
\* one of the knot differences it would divide by is 0
C20_CoefficientsFinite ==
  (op = "calculateCoefficients" /\ RGt(alpha, Zero)) =>
    \A k \in 1..Len(ret.v) :
      /\ \A c \in 1..4 : IsFinite(ret.v[k][c])
      /\ (Knots[1] = Knots[2] \/ Knots[1] = Knots[3] \/ Knots[2] = Knots[3])
           => TermU(k) = Zero
      /\ (Knots[2] = Knots[3] \/ Knots[2] = Knots[4] \/ Knots[3] = Knots[4])
           => TermV(k) = Zero

\* the first two points coincide and the last two do not: u is left at 0
\* on every axis and v is computed
C20_Witness ==
  /\ op = "calculateCoefficients"
  /\ alpha = One
  /\ IsFinite(tension)
  /\ points[1] = points[2]
  /\ points[2] # points[3]
  /\ \A k \in 1..2 : TermU(k) = Zero
  /\ \E k \in 1..2 : TermV(k) # Zero

SameValueAssigned ==
  \/ op' = "setTension" /\ arg' = tension
  \/ op' = "setAlpha" /\ arg' = alpha
  \/ op' = "setClosed" /\ arg' = closed

\* C23: assigning tension, alpha or closed the value it already has leaves
\* the cached coefficients and arc lengths of the mapper and the cached
\* bounding box of the interpolator in place, and does not invoke the
\* invalidation callback
C23_SameValueKeepsCache ==
  [][SameValueAssigned =>
       /\ cache' = cache
       /\ icache' = icache
       /\ fired' = 0
       /\ ~changed']_vars

\* tension was assigned the value it had while coefficients, arc lengths and
\* a bounding box were cached, and they still are
C23_Witness ==
  /\ op = "setTension"
  /\ arg = tension
  /\ ~changed
  /\ ~cache.coefNull
  /\ cache.arcLengths # UNDEFINED
  /\ icache.bbox # UNDEFINED

(***************************************************************************)
(* core/math.ts: the vector functions called with vectors of 2, 3 and 4    *)
(* dimensions                                                              *)
(***************************************************************************)
VecInputs ==
  {<<Zero, Zero>>, <<I(3), I(4)>>, <<One, Zero>>,
   <<Zero, Zero, Zero>>, <<I(3), I(4), I(12)>>, <<Zero, One, Zero>>,
   <<One, Zero, Zero, Zero>>}

Distance ==
  \E p1 \in VecInputs, p2 \in VecInputs :
    Pure("distance", <<p1, p2>>, Ok(distance(p1, p2)))

Dot ==
  \E v1 \in VecInputs, v2 \in VecInputs :
    Pure("dot", <<v1, v2>>, dot(v1, v2))

Cross ==
  \E v1 \in VecInputs, v2 \in VecInputs :
    Pure("cross", <<v1, v2>>, cross(v1, v2))

Orthogonal ==
  \E v \in VecInputs : Pure("orthogonal", <<v>>, orthogonal(v))

NextVec ==
  \/ Distance
  \/ Dot
  \/ Cross
  \/ Orthogonal

SpecVec == InitRoots /\ [][NextVec]_vars

\* C24: distance, dot and cross signal an error when their two vectors have
\* different dimensions, and orthogonal signals an error for a vector of
\* more than 2 dimensions; none of them returns a value in these cases
C24_MismatchSignalled ==
  /\ (op \in {"distance", "dot", "cross"} /\ Len(arg[1]) # Len(arg[2]))
       => ret = Thrown
  /\ (op = "orthogonal" /\ Len(arg[1]) > 2) => ret = Thrown

\* what the code does do: dot and orthogonal signal the error
C24_DotAndOrthogonalSignal ==
  /\ (op = "dot" /\ Len(arg[1]) # Len(arg[2])) => ret = Thrown
  /\ (op = "orthogonal" /\ Len(arg[1]) > 2) => ret = Thrown

(***************************************************************************)
(* core/utils.ts: binarySearch called with any non-decreasing array        *)
(***************************************************************************)
MaxSearchLen == 4
SearchValues == {Zero, Half, One, I(2)}
SearchTargets == {I(-1), Zero, Q(1, 4), Half, One, Q(3, 2), I(2), I(3)}

NonDecreasing(a) == \A i \in 1..(Len(a) - 1) : RLe(a[i], a[i + 1])

SearchArrays ==
  UNION {{a \in SeqsOfLen(SearchValues, n) : NonDecreasing(a)} :
         n \in 1..MaxSearchLen}

BinarySearch ==
  \E targetValue \in SearchTargets, accumulatedValues \in SearchArrays :
    Pure("binarySearch", <<targetValue, accumulatedValues>>,
         Ok(binarySearch(targetValue, accumulatedValues)))

NextSearch ==
  \/ BinarySearch

SpecSearch == InitRoots /\ [][NextSearch]_vars

\* C25: for a non-empty non-decreasing array a and a target v >= a[0],
\* binarySearch(v, a) returns an index i inside the array such that a[i] is
\* the greatest value of the array that is <= v; for v < a[0] it returns 0
C25_GreatestNotAbove ==
  op = "binarySearch" =>
    LET v == arg[1]
        a == arg[2]
        i == ret.v
    IN  /\ ret.ok
        /\ RGe(v, a[1]) =>
             /\ i \in 0..(Len(a) - 1)
             /\ RLe(a[i + 1], v)
             /\ \A j \in 1..Len(a) : RLe(a[j], v) => RLe(a[j], a[i + 1])
        /\ RLt(v, a[1]) => i = 0

\* the loop has run: the target lies strictly between two values of an
\* array of full length and the index found is an inner one
C25_Witness ==
  /\ op = "binarySearch"
  /\ Len(arg[2]) = MaxSearchLen
  /\ RLt(arg[2][1], arg[1])
  /\ RLt(arg[1], arg[2][Len(arg[2])])
  /\ \A j \in 1..Len(arg[2]) : arg[2][j] # arg[1]
  /\ ret.v \in 1..(Len(arg[2]) - 2)

(***************************************************************************)
(* SpecMemo: the coefficient cache of a mapper.  The four reads that go    *)
(* through getCoefficients, in any order, between assignments to tension   *)
(* and closed, which invalidate the cache.                                 *)
(***************************************************************************)
NextMemo ==
  \/ SetTension
  \/ SetClosed
  \/ GetPointAtT
  \/ GetTangentAtT
  \/ GetT(Times)
  \/ GetU

SpecMemo == InitOwn /\ [][NextMemo]_vars

\* C26: since the cache was last invalidated the coefficients of each
\* segment have been computed at most once, and the coefficient cache holds
\* at most segmentCount entries, after any sequence of getPointAtT,
\* getTangentAtT, getT and getU calls
C26_ComputedOnce ==
  /\ \A idx \in DOMAIN cache.computed : cache.computed[idx] <= 1
  /\ Cardinality(DOMAIN cache.coef) <= SegmentCount(points, closed)

\* every segment of a curve of two segments is in the cache, each computed
\* once, after a read that found its segment there
C26_Witness ==
  /\ op = "getTangentAtT"
  /\ hadCache = NoCache
  /\ SegmentCount(points, closed) >= 2
  /\ DOMAIN cache.coef = 0..(SegmentCount(points, closed) - 1)
  /\ \A idx \in DOMAIN cache.coef : cache.computed[idx] = 1
  /\ kind = "linear"

(***************************************************************************)
(* SpecPos: position lookups on a CurveInterpolator.  new                  *)
(* CurveInterpolator(points, options) without an lmargin option, then      *)
(* assignments to tension and calls of lookupPositions without a margin    *)
(* argument.                                                               *)
(***************************************************************************)
LookupPositions ==
  \E v \in LookupValues, axis \in Axes, max \in MaxCounts :
    \E s \in {lookupPositions(World, v, axis, max, lmargin)} :
      FacadeCall("lookupPositions", <<v, axis, max, lmargin>>, s)

NextPos ==
  \/ SetLookupTension
  \/ LookupPositions

\* open curves: on them the arc length integrals of the model stay small
InitPos ==
  \E pts \in LookupPoints, t \in LookupTensions :
    Constructed(NewCurveInterpolator(pts, t, Zero, FALSE))

SpecPos == InitPos /\ [][NextPos]_vars

\* the points lookup returns for the arguments of the last call
PointsOfLookup ==
  LookupSegments(Self, arg[1], arg[2], arg[3], arg[4], 0, <<>>).r.v

\* the positions of the last call are positions of the curve, one for each
\* point of lookup and in the order of lookup: a position is a number, the
\* time it was mapped from is a curve time (getU maps the curve times onto
\* the positions [0,1]), and the curve point at that time has the
\* coordinates of the point of lookup on the axes other than the lookup
\* axis (on the lookup axis the point of lookup holds v itself)
PositionsMatch ==
  /\ \A j \in 1..Len(ret.v) : IsFinite(ret.v[j]) /\ RGe(ret.v[j], Zero)
  /\ Len(ret.v) = Len(PointsOfLookup)
  /\ \A j \in 1..Len(ret.v) :
       /\ RGe(ret.times[j], Zero) /\ RLe(ret.times[j], One)
       /\ \A c \in (1..Len(PointsOfLookup[j])) \ {arg[2] + 1} :
            getPointAtT(Self, ret.times[j]).r.v[c] = PointsOfLookup[j][c]

\* C27: for every value, axis and max, lookupPositions returns one position
\* for each point lookup returns, in the same order, namely the position of
\* that point on the curve, and every position it returns lies in [0,1]
C27_PositionsOfLookup ==
  (op = "lookupPositions" /\ ret.ok) => PositionsMatch

\* with max >= 0 the positions are those of the points of lookup
C27_ForwardPositions ==
  (op = "lookupPositions" /\ ret.ok /\ arg[3] >= 0) => PositionsMatch

\* the coefficients the callback read during the last call, and thereby
\* cached, are those of the mapper as the call has left it
CallbackReadCurrent ==
  \A idx \in cbRead :
    idx \in DOMAIN cache.coef =>
      cache.coef[idx] = getCoefficients(FreshMapper, idx).r.v

\* C28: when the callback has run during an assignment to tension, alpha or
\* closed, the coefficients it read belong to the new value and are correct
\* when the setter returns
C28_CallbackSeesNewValue ==
  (op \in {"setTension", "setAlpha", "setClosed"} /\ changed /\ fired > 0)
    => CallbackReadCurrent

\* the points setter assigns before it invalidates: its callback reads the
\* new points
C28_PointsAssignedFirst ==
  (op = "setPoints" /\ changed /\ fired > 0) => CallbackReadCurrent

(***************************************************************************)
(* SpecGuard: assignments of numbers and of values that are no finite      *)
(* numbers to tension and alpha, on a mapper in any state of its life      *)
(* cycle.                                                                  *)
(***************************************************************************)
\* NaN, Infinity, -Infinity and undefined
NotFinite == {NaN, PosInf, NegInf, UNDEFINED}

SetAlphaAny ==
  \E a \in Alphas \cup NotFinite : Setter("setAlpha", a, setAlpha(World, kind, cb, a))

SetTensionAny ==
  \E t \in Tensions \cup NotFinite :
    Setter("setTension", t, setTension(World, kind, cb, t))

NextGuard ==
  \/ SetAlphaAny
  \/ SetTensionAny
  \/ SetPoints
  \/ GetT(Probes)

SpecGuard == Init /\ [][NextGuard]_vars

\* C29: an assignment of NaN, Infinity, -Infinity or undefined to tension or
\* alpha changes neither the stored values nor the caches and invokes no
\* callback, and tension and alpha are finite numbers in every state
C29_NonFiniteIgnored ==
  [][/\ (op' \in {"setTension", "setAlpha"} /\ arg' \in NotFinite) =>
          /\ tension' = tension
          /\ alpha' = alpha
          /\ cache' = cache
          /\ icache' = icache
          /\ fired' = 0
          /\ ~changed'
     /\ NumberIsFinite(tension') /\ NumberIsFinite(alpha')]_vars

\* Infinity was assigned to the tension of a mapper with a callback whose
\* cache holds coefficients and an arc length table
C29_Witness ==
  /\ op = "setTension"
  /\ arg = PosInf
  /\ cb = "reader"
  /\ ~cache.coefNull
  /\ cache.arcLengths # UNDEFINED
  /\ tension = Zero

(***************************************************************************)
(* CurveInterpolator.getNearestPosition(point, threshold)                  *)
(*                                                                         *)
(* The call is taken in steps: the first pass, then one step for each      *)
(* round of the refinement loop, then the return.  While the call runs,    *)
(* ret.done is FALSE and ret.v holds its locals <<minT, minDist, step, pu>>;*)
(* no other call begins before it has returned.  The first pass is taken   *)
(* by its outcome: the curve time minT of the sample it found nearest is   *)
(* any of StartTimes, and minDist is the distance of the curve point at    *)
(* minT (the table entry of the sample), or minT = getTime(0) = 0 and      *)
(* minDist = Infinity when no distance compares below Infinity.            *)
(***************************************************************************)
\* bisect with `dist <= minDist` (a seeded fault)
bisectNotStrict(m, point, t, minDist, pu) ==
  IF RGe(t, Zero) /\ RLe(t, One)
  THEN With(getPointAtTime(m, t), LAMBDA g :
       With(distance(point, g.r.v), LAMBDA dist :
         <<g.m, g.r.v, dist, RLe(dist, minDist)>>))
  ELSE <<m, pu, minDist, FALSE>>

\* bisect(t): <<the mapper afterwards, pu, dist, whether it returned true>>
bisect(m, point, t, minDist, pu) ==
  IF RGe(t, Zero) /\ RLe(t, One)
  THEN With(getPointAtTime(m, t), LAMBDA g :
       With(distance(point, g.r.v), LAMBDA dist :
         <<g.m, g.r.v, dist, RLt(dist, minDist)>>))
  ELSE <<m, pu, minDist, FALSE>>

\* one round of `while (step > threshold)`: the mapper afterwards and the
\* locals <<minT, minDist, step, pu>>
Refine(m, point, minT, minDist, step, pu) ==
  With(bisect(m, point, RSub(minT, step), minDist, pu), LAMBDA lower :
    IF lower[4] THEN <<lower[1], <<RSub(minT, step), lower[3], step, lower[2]>>>>
    ELSE With(bisect(lower[1], point, RAdd(minT, step), minDist, lower[2]),
              LAMBDA upper :
           IF upper[4]
           THEN <<upper[1], <<RAdd(minT, step), upper[3], step, upper[2]>>>>
           ELSE <<upper[1], <<minT, minDist, RDiv(step, I(2)), upper[2]>>>>))

\* const count = 100
RefineCount == 100

\* the locals after the first pass that found the sample at the time start
FirstPass(m, point, start) ==
  With(distance(point, getPointAtTime(m, start).r.v), LAMBDA dist :
    With([i \in 1..Len(point) |-> UNDEFINED], LAMBDA pu :
      IF RLt(dist, PosInf)
      THEN <<start, dist, Q(1, RefineCount * 2), pu>>
      ELSE <<Zero, PosInf, Q(1, RefineCount * 2), pu>>))

\* a curve whose point at the time t is (t, 0), so that distances from
\* points of the first axis are exact
InitNear ==
  Constructed(NewCurveInterpolator(<<PA, PB>>, Zero, Zero, FALSE))

QueryPoints ==
  {<<Q(49, 100), Zero>>, <<Q(201, 400), Zero>>, <<I(2), Zero>>, <<NaN, Zero>>}
Thresholds == {Q(1, 200), Q(1, 250), Q(1, 500), Zero, I(-1), NaN, PosInf}
StartTimes == {Zero, Half, One}

\* a getNearestPosition call is inside its refinement loop
Refining == op = "getNearestPosition" /\ ret.ok /\ ~ret.done

GetNearestPosition ==
  /\ ~Refining
  /\ \E point \in QueryPoints, threshold \in Thresholds, start \in StartTimes :
       FacadeCall("getNearestPosition", <<point, threshold>>,
         WRes(World,
              IF RLe(threshold, Zero) \/ ~NumberIsFinite(threshold) THEN Thrown
              ELSE [v |-> FirstPass(Self, point, start), ok |-> TRUE,
                    done |-> FALSE]))

RefineRound ==
  /\ Refining
  /\ RGt(ret.v[3], arg[2])   \* while (step > threshold)
  /\ \E r \in {Refine(Self, arg[1], ret.v[1], ret.v[2], ret.v[3], ret.v[4])} :
       FacadeCall("getNearestPosition", arg,
         WRes([World EXCEPT !.m = r[1]],
              [v |-> r[2], ok |-> TRUE, done |-> FALSE]))

\* the loop has ended: minU = this._curveMapper.getU(minT), and the object
\* returned is <<u, distance, point>>
NearestReturn ==
  /\ Refining
  /\ ~RGt(ret.v[3], arg[2])
  /\ \E g \in {getU(Self, "numerical", ret.v[1])} :
       FacadeCall("getNearestPosition", arg,
         WRes([World EXCEPT !.m = g.m],
              IF ~g.r.ok THEN Thrown
              ELSE [v |-> <<g.r.v, ret.v[2], ret.v[4]>>, ok |-> TRUE,
                    done |-> TRUE]))

NextNear ==
  \/ GetNearestPosition
  \/ RefineRound
  \/ NearestReturn

\* a call that has begun runs on: weak fairness of the rounds and of the
\* return.  WF_vars(A) is []<>~ENABLED <<A>>_vars \/ []<><<A>>_vars; it is
\* written out with the enabling condition of each action, which is its
\* guard, since each of the two changes ret whenever its guard holds
RoundEnabled == Refining /\ RGt(ret.v[3], arg[2])
ReturnEnabled == Refining /\ ~RGt(ret.v[3], arg[2])

SpecNear ==
  /\ InitNear
  /\ [][NextNear]_vars
  /\ ([]<>~RoundEnabled \/ []<><<RefineRound>>_vars)
  /\ ([]<>~ReturnEnabled \/ []<><<NearestReturn>>_vars)

\* C30: for every query point and every finite threshold > 0 the refinement
\* loop of getNearestPosition ends: each round either strictly lowers the
\* best distance and keeps the step, or keeps the best distance and time and
\* halves the step; rounds are taken only while the step is above the
\* threshold, and the call returns once it is not
C30_RefinementTerminates ==
  /\ [][(Refining /\ Refining') =>
          /\ RGt(ret.v[3], arg[2])
          /\ \/ RLt(ret'.v[2], ret.v[2]) /\ ret'.v[3] = ret.v[3]
             \/ /\ ret'.v[2] = ret.v[2]
                /\ ret'.v[1] = ret.v[1]
                /\ ret'.v[3] = RDiv(ret.v[3], I(2))]_vars
  /\ [][(Refining /\ ~Refining') => RLe(ret.v[3], arg[2])]_vars
  /\ Refining ~> (op = "getNearestPosition" /\ ret.ok /\ ret.done)

\* a call has returned after rounds that moved the best time off the sample
\* and halved the step twice
C30_Witness ==
  /\ op = "getNearestPosition"
  /\ ret.ok
  /\ ret.done
  /\ arg = <<<<Q(201, 400), Zero>>, Q(1, 500)>>
  /\ ret.v[2] = Zero

====
